---- MODULE Spec2Model ----
(***************************************************************************)
(* A model of the cycle-events Broker (src/src/Broker.js, lines 1-320, and *)
(* its compiled form src/index.js): the listener registry and the          *)
(* synchronous dispatch algorithm.                                         *)
(*                                                                         *)
(* Every broker method is an operator that maps the broker's state (the    *)
(* registry and the log of what happened so far in the current call) to    *)
(* the state after the call, the nested calls made by listeners included.  *)
(* One action per public method applies the operator to inputs drawn from  *)
(* small sets.  The log records, in order, every registry write, the start *)
(* and the end of every emission round and the start and the end of every  *)
(* listener invocation, so that what happens inside a call can be stated   *)
(* as a predicate of the state reached when the call returns.              *)
(*                                                                         *)
(* adapters holds the closures made by one (the `single` functions), in    *)
(* the order of their creation; fired counts, for each of them, the calls  *)
(* it made of the listener it wraps; handle is the unsubscribe function    *)
(* the client has kept from a call of on or one, if any.                   *)
(*                                                                         *)
(* other is the registry of a second Broker instance of the same program.  *)
(***************************************************************************)
EXTENDS Naturals, Sequences, FiniteSets

VARIABLES registry, log, last, adapters, fired, handle, other

vars == <<registry, log, last, adapters, fired, handle, other>>

(***************************************************************************)
(* Bounds of the model.                                                    *)
(***************************************************************************)
\* The most listeners (over all events) a client registers.
MaxListeners == 3
\* The depth of nested broker calls the call stack holds; a deeper call
\* raises a RangeError (stack overflow).
MaxDepth == 5
\* The most adapters a client makes with one.
MaxAdapters == 2
\* fired counts up to MaxFired ("MaxFired or more").
MaxFired == 2
\* The most listeners (over all events) the client of one registers.
MaxOnceListeners == 2

(***************************************************************************)
(* JavaScript values.  A value has a type tag t, characters s (strings)    *)
(* and an identity id (functions, errors).                                 *)
(***************************************************************************)
jsString(chars) == [t |-> "string", s |-> chars, id |-> ""]
jsFunction(name) == [t |-> "function", s |-> <<>>, id |-> name]
jsError(name) == [t |-> "error", s |-> <<>>, id |-> name]
jsNumber(name) == [t |-> "number", s |-> <<>>, id |-> name]
Undefined == [t |-> "undefined", s |-> <<>>, id |-> ""]
Null == [t |-> "null", s |-> <<>>, id |-> ""]
\* "no exception pending"
NoExc == [t |-> "none", s |-> <<>>, id |-> ""]

\* (the messages quote the parameter name between backquotes in the source)
EVENT_ERROR == "TypeError: Parameter event must be a non-empty string."
CALLBACK_ERROR == "TypeError: Parameter callback must be a function."
RANGE_ERROR == "RangeError: Maximum call stack size exceeded"
\* what calling a value that is not a function raises
NOT_A_FUNCTION == "TypeError: callback is not a function"

\* Broker.Events
ERROR == <<"e", "r", "r", "o", "r">>
ADDED == <<"l", "i", "s", "t", "e", "n", "e", "r", "A", "d", "d", "e", "d">>
REMOVED == <<"l", "i", "s", "t", "e", "n", "e", "r", "R", "e", "m", "o", "v", "e", "d">>

(***************************************************************************)
(* lodash helpers, computed as lodash computes them.                       *)
(***************************************************************************)
\* trim(string) removes what the regular expression \s matches.  The
\* strings of the model are strings of ASCII characters, and these are the
\* ASCII characters \s matches: tab, line feed, vertical tab, form feed,
\* carriage return and space.  (\s also matches U+00A0, U+1680, U+2000 to
\* U+200A, U+2028, U+2029, U+202F, U+205F, U+3000 and U+FEFF; no string of
\* the model holds a character outside ASCII.)
Whitespace == {"\t", "\n", "", "\f", "\r", " "}

RECURSIVE trimStart(_)
trimStart(chars) ==
    IF chars # <<>> /\ Head(chars) \in Whitespace THEN trimStart(Tail(chars)) ELSE chars

RECURSIVE trimEnd(_)
trimEnd(chars) ==
    IF chars # <<>> /\ chars[Len(chars)] \in Whitespace
    THEN trimEnd(SubSeq(chars, 1, Len(chars) - 1))
    ELSE chars

trim(chars) == trimEnd(trimStart(chars))

isString(value) == value.t = "string"
isFunction(value) == value.t = "function"
isError(value) == value.t = "error"
isEmpty(seq) == Len(seq) = 0

concat(array, value) == Append(array, value)

\* a uniq that keeps every element
uniqKeepsAll(array) == array

\* a uniq that keeps the last of two equal elements
RECURSIVE uniqKeepsLast(_)
uniqKeepsLast(array) ==
    IF array = <<>> THEN <<>>
    ELSE LET init == uniqKeepsLast(SubSeq(array, 1, Len(array) - 1))
             x == array[Len(array)]
         IN  Append(SelectSeq(init, LAMBDA y : y # x), x)

RECURSIVE uniq(_)
uniq(array) ==
    IF array = <<>> THEN <<>>
    ELSE LET init == uniq(SubSeq(array, 1, Len(array) - 1))
             x == array[Len(array)]
         IN  IF \E i \in 1..Len(init) : init[i] = x THEN init ELSE Append(init, x)

\* a removal that fills the hole with the last element
withoutSwap(array, value) ==
    IF \A i \in 1..Len(array) : array[i] # value THEN array
    ELSE LET i == CHOOSE i \in 1..Len(array) : array[i] = value
         IN  [k \in 1..(Len(array) - 1) |->
                 IF k = i THEN array[Len(array)] ELSE array[k]]

without(array, value) == SelectSeq(array, LAMBDA x : x # value)

(***************************************************************************)
(* Utility methods of Broker.js.                                           *)
(***************************************************************************)
\* an isValidEvent that forgets to trim
isValidEventUntrimmed(event) == isString(event) /\ ~isEmpty(event.s)

isValidEvent(event) == isString(event) /\ ~isEmpty(trim(event.s))

isValidCallback(callback) == isFunction(callback)

\* fn(arg), for the two predicates throwIfNot is handed (by name)
apply(fn, arg) ==
    IF fn = "isValidEvent" THEN isValidEvent(arg) ELSE isValidCallback(arg)

\* The exception throwIfNot raises, NoExc when it raises none.
throwIfNot(fn, arg, msg) == IF ~apply(fn, arg) THEN jsError(msg) ELSE NoExc

\* an info that looks the list up without regard for the event
infoAnyEvent(map, event) ==
    [listeners |-> IF DOMAIN map = {} THEN <<>>
                   ELSE map[CHOOSE e \in DOMAIN map : TRUE]]

\* an info that looks the list up under the trimmed name
infoTrimmed(map, event) ==
    [listeners |-> IF trim(event) \in DOMAIN map THEN map[trim(event)] ELSE <<>>]

\* info(ctx, event).listeners: the list stored for the event, [] when none is.
info(map, event) ==
    [listeners |-> IF event \in DOMAIN map THEN map[event] ELSE <<>>]

(***************************************************************************)
(* The state of a call in progress: the registry (the per-instance map of  *)
(* Broker.js), the log, the pending exception and the value returned.      *)
(***************************************************************************)
Record(m, entry) == [m EXCEPT !.log = Append(@, entry)]
Return(m, value) == [m EXCEPT !.exc = NoExc, !.val = value]
Throw(m, error) == [m EXCEPT !.exc = error, !.val = Undefined]

\* map.set(key, listeners)
mapSet(m, event, listeners) ==
    Record([m EXCEPT !.reg = [e \in DOMAIN m.reg \cup {event} |->
                                 IF e = event THEN listeners ELSE m.reg[e]]],
           [t |-> "set", event |-> event, listeners |-> listeners])

\* a delete that empties the whole map
mapDeleteAll(m, event) ==
    Record([m EXCEPT !.reg = <<>>], [t |-> "delete", event |-> event])

\* map.delete(key)
mapDelete(m, event) ==
    Record([m EXCEPT !.reg = [e \in DOMAIN m.reg \ {event} |-> m.reg[e]]],
           [t |-> "delete", event |-> event])

(***************************************************************************)
(* The listeners of the model: client functions, each with the body it     *)
(* runs when the broker invokes it (the broker is `this`, and a variable   *)
(* of the listener's scope).  A body is a sequence of commands: calls of   *)
(* broker methods, then a throw or a return.                               *)
(***************************************************************************)
A == <<"a">>
B == <<"b">>

Call(op, event, callback) ==
    [op |-> op, event |-> event, callback |-> callback, value |-> Undefined]
ThrowCmd(error) ==
    [op |-> "throw", event |-> <<>>, callback |-> "", value |-> error]
ReturnCmd(value) ==
    [op |-> "return", event |-> <<>>, callback |-> "", value |-> value]

Boom == jsError("Error: boom")

\* The adapters made by one are all named `single`; the k-th made is told
\* apart here as SingleNames[k].
SingleNames == <<"single1", "single2", "single3", "single4">>

IsAdapter(name) == \E k \in 1..Len(SingleNames) : SingleNames[k] = name

AdapterIndex(name) == CHOOSE k \in 1..Len(SingleNames) : SingleNames[k] = name

Body(name) ==
    CASE name = "f1" -> <<>>
      [] name = "thrower" -> <<ThrowCmd(Boom)>>
      [] name = "returnsError" -> <<ReturnCmd(Boom)>>
      [] name = "throwsNumber" -> <<ThrowCmd(jsNumber("123"))>>
      [] name = "selfRemover" -> <<Call("off", A, "selfRemover")>>
      [] name = "removesF1" -> <<Call("off", A, "f1")>>
      [] name = "addsF1" -> <<Call("on", A, "f1")>>
      [] name = "removesThrower" -> <<Call("off", A, "thrower")>>
      [] name = "emitsB" -> <<Call("emit", B, "")>>
      [] name = "reEmitter" -> <<Call("off", A, "reEmitter"), Call("emit", A, "")>>
      [] name = "returnsValue" -> <<ReturnCmd(jsNumber("42"))>>
      [] OTHER -> <<>>

(***************************************************************************)
(* The broker's methods are mutually recursive (a listener calls them).    *)
(* m is the state the call starts in, d the room left on the call stack.   *)
(***************************************************************************)
RECURSIVE emit(_, _, _, _)
RECURSIVE forEachAnnounce(_, _, _, _, _, _, _)
RECURSIVE announce(_, _, _, _, _, _)
RECURSIVE on(_, _, _, _)
RECURSIVE off(_, _, _, _)
RECURSIVE removeAllListeners(_, _, _)
RECURSIVE forEachOff(_, _, _, _, _)
RECURSIVE forEachOffLive(_, _, _, _, _)
RECURSIVE run(_, _, _, _)
RECURSIVE remove(_, _, _, _, _, _)
RECURSIVE command(_, _, _)
RECURSIVE one(_, _, _, _)
RECURSIVE single(_, _, _, _)
RECURSIVE invoke(_, _, _, _)

\* The function on returns: () => this.off(event, callback).
Unsubscribe(event, callback) ==
    [t |-> "function", s |-> <<>>, id |-> "unsubscribe",
     event |-> event, callback |-> callback]

\* bind.placeholder: the value lodash's bind takes for a hole among the
\* arguments it is given to apply (the lodash function `_` itself).
Placeholder == jsFunction("_")

\* The string lodash's bind takes for a hole as well (PLACEHOLDER).
PLACEHOLDER ==
    <<"_", "_", "l", "o", "d", "a", "s", "h", "_", "p", "l", "a", "c", "e",
      "h", "o", "l", "d", "e", "r", "_", "_">>

\* The message of the TypeError bind raises when what it is given to bind
\* is no function.
FUNC_ERROR_TEXT == "TypeError: Expected a function"

\* value === placeholder || value === PLACEHOLDER (replaceHolders)
isHole(value) == value = Placeholder \/ value = jsString(PLACEHOLDER)

\* bind(callback, this, ...args), called with no argument, as attempt calls
\* it: the arguments callback receives.  A hole is filled from the arguments
\* of the call; there are none, so it holds undefined.
bind(args) ==
    [i \in 1..Len(args) |-> IF isHole(args[i]) THEN Undefined ELSE args[i]]

\* The characters of a string, as one string.
RECURSIVE join(_)
join(chars) == IF chars = <<>> THEN "" ELSE Head(chars) \o join(Tail(chars))

\* new Error(value): the message is the value converted to a string, and an
\* error without message prints as its name alone.
newError(value) ==
    CASE value.t = "string" ->
             IF value.s = <<>> THEN jsError("Error")
             ELSE jsError("Error: " \o join(value.s))
      [] value.t = "undefined" -> jsError("Error")
      [] value.t = "null" -> jsError("Error: null")
      [] OTHER -> jsError("Error: " \o value.id)

\* What attempt hands back: the listener's result, or what it threw, made
\* an Error when it is none (isError(e) ? e : new Error(e)).
attempt(r) ==
    IF r.exc = NoExc THEN r.val
    ELSE IF isError(r.exc) THEN r.exc
    ELSE newError(r.exc)

\* Sequencing: Then(r), with r the state a call ends in (computed once).
Bind(call, Then(_)) == CHOOSE next \in {Then(r) : r \in {call}} : TRUE

(***************************************************************************)
(* Variants of the dispatch loop with a plausible slip each; the checks of *)
(* the properties below use them to show what the properties depend on.    *)
(***************************************************************************)
\* iterates the snapshot from its end
RECURSIVE forEachAnnounceBackwards(_, _, _, _, _, _, _)
forEachAnnounceBackwards(m, listeners, i, rid, event, args, d) ==
    IF i > Len(listeners) THEN m
    ELSE Bind(announce(m, rid, event, args, listeners[Len(listeners) + 1 - i], d),
              LAMBDA r : IF r.exc # NoExc THEN r
                         ELSE forEachAnnounceBackwards(r, listeners, i + 1, rid,
                                                       event, args, d))

\* stops one listener early
RECURSIVE forEachAnnounceShort(_, _, _, _, _, _, _)
forEachAnnounceShort(m, listeners, i, rid, event, args, d) ==
    IF i >= Len(listeners) THEN m
    ELSE Bind(announce(m, rid, event, args, listeners[i], d),
              LAMBDA r : IF r.exc # NoExc THEN r
                         ELSE forEachAnnounceShort(r, listeners, i + 1, rid,
                                                   event, args, d))

\* iterates the live list of the registry by index instead of the array it
\* was handed
RECURSIVE forEachAnnounceLive(_, _, _, _, _, _, _)
forEachAnnounceLive(m, listeners, i, rid, event, args, d) ==
    IF i > Len(info(m.reg, event).listeners) THEN m
    ELSE Bind(announce(m, rid, event, args, info(m.reg, event).listeners[i], d),
              LAMBDA r : IF r.exc # NoExc THEN r
                         ELSE forEachAnnounceLive(r, listeners, i + 1, rid,
                                                  event, args, d))

\* lets the listener's exception through instead of attempting the listener
announceRethrows(m, rid, event, args, callback, d) ==
    Bind(invoke(Record(m, [t |-> "call", rid |-> rid, event |-> event,
                           callback |-> callback, args |-> bind(args)]),
                callback, bind(args), d - 1),
         LAMBDA r : Record(r, [t |-> "return", rid |-> rid, callback |-> callback,
                               threw |-> r.exc # NoExc, value |-> attempt(r)]))

\* an announce that drops a listener that failed from the event's list
announceDropsFailing(m, rid, event, args, callback, d) ==
    Bind(invoke(Record(m, [t |-> "call", rid |-> rid, event |-> event,
                           callback |-> callback, args |-> bind(args)]),
                callback, bind(args), d - 1),
         LAMBDA r :
             IF isError(attempt(r))
             THEN emit(mapSet(Record(Return(r, Undefined),
                                     [t |-> "return", rid |-> rid,
                                      callback |-> callback,
                                      threw |-> r.exc # NoExc,
                                      value |-> attempt(r)]),
                              event,
                              without(info(r.reg, event).listeners, callback)),
                       jsString(ERROR),
                       <<[event |-> event, callback |-> callback,
                          error |-> attempt(r)]>>,
                       d - 1)
             ELSE Record(Return(r, Undefined),
                         [t |-> "return", rid |-> rid, callback |-> callback,
                          threw |-> r.exc # NoExc, value |-> attempt(r)]))

(***************************************************************************)
(* The broker's methods.                                                   *)
(***************************************************************************)
\* One command of a listener's body: a call of a broker method.
command(m, c, d) ==
    CASE c.op = "on" -> on(m, jsString(c.event), jsFunction(c.callback), d)
      [] c.op = "off" -> off(m, jsString(c.event), jsFunction(c.callback), d)
      [] c.op = "removeAllListeners" -> removeAllListeners(m, jsString(c.event), d)
      [] OTHER -> emit(m, jsString(c.event), <<>>, d)

\* A listener's body, from command i on.  An exception raised by a broker
\* method called in the body leaves the body at once.
run(m, body, i, d) ==
    IF i > Len(body) THEN Return(m, Undefined)
    ELSE IF body[i].op = "throw" THEN Throw(m, body[i].value)
    ELSE IF body[i].op = "return" THEN Return(m, body[i].value)
    ELSE Bind(command(m, body[i], d),
              LAMBDA r : IF r.exc # NoExc THEN r ELSE run(r, body, i + 1, d))

\* flow's first function, () => callback(...arguments): the arguments are
\* those of the call of one that made the adapter, whatever the adapter is
\* called with (emitted).
applyCallback(m, k, emitted, d) ==
    IF ~isFunction(m.ads[k].callback) THEN Throw(m, jsError(NOT_A_FUNCTION))
    ELSE IF d = 0 THEN Throw(m, jsError(RANGE_ERROR))
    ELSE run(Record([m EXCEPT !.fired[k] = IF @ < MaxFired THEN @ + 1 ELSE @],
                    [t |-> "apply", adapter |-> SingleNames[k],
                     callback |-> m.ads[k].callback.id,
                     args |-> <<m.ads[k].event, m.ads[k].callback>>,
                     emitted |-> emitted]),
             Body(m.ads[k].callback.id), 1, d - 1)

\* The k-th adapter: single = flow(() => callback(...arguments),
\* () => this.off(event, single)).  flow calls its functions in turn; an
\* exception raised by the first leaves the adapter at once.
single(m, k, emitted, d) ==
    Bind(applyCallback(m, k, emitted, d),
         LAMBDA r : IF r.exc # NoExc THEN r
                    ELSE off(r, m.ads[k].event, jsFunction(SingleNames[k]), d))

\* callback(...args), for a listener of the registry: an adapter made by
\* one, or a function of the client.
invoke(m, callback, args, d) ==
    IF IsAdapter(callback) THEN single(m, AdapterIndex(callback), args, d)
    ELSE run(m, Body(callback), 1, d)

\* announce(event, args, callback), bound to the broker: attempt the
\* listener; if what attempt hands back is an error, emit `error`.
announce(m, rid, event, args, callback, d) ==
    Bind(invoke(Record(m, [t |-> "call", rid |-> rid, event |-> event,
                           callback |-> callback, args |-> bind(args)]),
                callback, bind(args), d - 1),
         LAMBDA r :
             IF isError(attempt(r))
             THEN emit(Record(Return(r, Undefined),
                              [t |-> "return", rid |-> rid, callback |-> callback,
                               threw |-> r.exc # NoExc, value |-> attempt(r)]),
                       jsString(ERROR),
                       <<[event |-> event, callback |-> callback,
                          error |-> attempt(r)]>>,
                       d - 1)
             ELSE Record(Return(r, Undefined),
                         [t |-> "return", rid |-> rid, callback |-> callback,
                          threw |-> r.exc # NoExc, value |-> attempt(r)]))

\* forEach(listeners, bind(announce, this, event, args)), from index i on.
\* An event that is bind's PLACEHOLDER string is a hole among the bound
\* arguments: forEach's first argument, the listener, fills it, so that
\* announce is called as announce(listener, args, index), and its
\* bind(callback, this, ...args), with the index for callback, raises a
\* TypeError before anything is attempted.
forEachAnnounce(m, listeners, i, rid, event, args, d) ==
    IF i > Len(listeners) THEN m
    ELSE IF isHole(jsString(event)) THEN Throw(m, jsError(FUNC_ERROR_TEXT))
    ELSE Bind(announce(m, rid, event, args, listeners[i], d),
              LAMBDA r : IF r.exc # NoExc THEN r
                         ELSE forEachAnnounce(r, listeners, i + 1, rid, event,
                                              args, d))

\* an emit that keeps, during a call, the list it first read for an event
staleListeners(m, e) ==
    IF \E i \in 1..Len(m.log) : m.log[i].t = "emit" /\ m.log[i].event = e
    THEN m.log[CHOOSE i \in 1..Len(m.log) :
                   /\ m.log[i].t = "emit" /\ m.log[i].event = e
                   /\ \A j \in 1..(i - 1) :
                          ~(m.log[j].t = "emit" /\ m.log[j].event = e)].listeners
    ELSE info(m.reg, e).listeners

emitStale(m, event, args, d) ==
    IF d = 0 THEN Throw(m, jsError(RANGE_ERROR))
    ELSE IF throwIfNot("isValidEvent", event, EVENT_ERROR) # NoExc
    THEN Throw(m, throwIfNot("isValidEvent", event, EVENT_ERROR))
    ELSE Bind(forEachAnnounce(
                  Record(m, [t |-> "emit", event |-> event.s, args |-> args,
                             listeners |-> staleListeners(m, event.s)]),
                  staleListeners(m, event.s), 1, Len(m.log) + 1, event.s,
                  args, d),
              LAMBDA r : IF r.exc # NoExc THEN r
                         ELSE Return(Record(r, [t |-> "emitted",
                                                rid |-> Len(m.log) + 1]),
                                     Undefined))

emit(m, event, args, d) ==
    IF d = 0 THEN Throw(m, jsError(RANGE_ERROR))
    ELSE IF throwIfNot("isValidEvent", event, EVENT_ERROR) # NoExc
    THEN Throw(m, throwIfNot("isValidEvent", event, EVENT_ERROR))
    ELSE Bind(forEachAnnounce(
                  Record(m, [t |-> "emit", event |-> event.s, args |-> args,
                             listeners |-> info(m.reg, event.s).listeners]),
                  info(m.reg, event.s).listeners, 1, Len(m.log) + 1, event.s,
                  args, d),
              LAMBDA r : IF r.exc # NoExc THEN r
                         ELSE Return(Record(r, [t |-> "emitted",
                                                rid |-> Len(m.log) + 1]),
                                     Undefined))

\* an on that registers without emitting listenerAdded
onSilent(m, event, callback, d) ==
    IF d = 0 THEN Throw(m, jsError(RANGE_ERROR))
    ELSE IF throwIfNot("isValidEvent", event, EVENT_ERROR) # NoExc
    THEN Throw(m, throwIfNot("isValidEvent", event, EVENT_ERROR))
    ELSE IF throwIfNot("isValidCallback", callback, CALLBACK_ERROR) # NoExc
    THEN Throw(m, throwIfNot("isValidCallback", callback, CALLBACK_ERROR))
    ELSE Return(mapSet(m, event.s,
                       uniq(concat(info(m.reg, event.s).listeners, callback.id))),
                Unsubscribe(event.s, callback.id))

\* an on that emits listenerAdded before it stores the list
onEmitsFirst(m, event, callback, d) ==
    IF d = 0 THEN Throw(m, jsError(RANGE_ERROR))
    ELSE IF throwIfNot("isValidEvent", event, EVENT_ERROR) # NoExc
    THEN Throw(m, throwIfNot("isValidEvent", event, EVENT_ERROR))
    ELSE IF throwIfNot("isValidCallback", callback, CALLBACK_ERROR) # NoExc
    THEN Throw(m, throwIfNot("isValidCallback", callback, CALLBACK_ERROR))
    ELSE Bind(emit(m, jsString(ADDED),
                   <<[event |-> event.s, callback |-> callback.id]>>, d - 1),
              LAMBDA r : IF r.exc # NoExc THEN r
                         ELSE Return(mapSet(r, event.s,
                                            uniq(concat(info(r.reg, event.s).listeners,
                                                        callback.id))),
                                     Unsubscribe(event.s, callback.id)))

\* an on that emits listenerAdded only when it added the listener
onWhenAdded(m, event, callback, d) ==
    IF d = 0 THEN Throw(m, jsError(RANGE_ERROR))
    ELSE IF throwIfNot("isValidEvent", event, EVENT_ERROR) # NoExc
    THEN Throw(m, throwIfNot("isValidEvent", event, EVENT_ERROR))
    ELSE IF throwIfNot("isValidCallback", callback, CALLBACK_ERROR) # NoExc
    THEN Throw(m, throwIfNot("isValidCallback", callback, CALLBACK_ERROR))
    ELSE IF \E i \in 1..Len(info(m.reg, event.s).listeners) :
                info(m.reg, event.s).listeners[i] = callback.id
    THEN Return(m, Unsubscribe(event.s, callback.id))
    ELSE Bind(emit(mapSet(m, event.s,
                          uniq(concat(info(m.reg, event.s).listeners, callback.id))),
                   jsString(ADDED),
                   <<[event |-> event.s, callback |-> callback.id]>>, d - 1),
              LAMBDA r : IF r.exc # NoExc THEN r
                         ELSE Return(r, Unsubscribe(event.s, callback.id)))

on(m, event, callback, d) ==
    IF d = 0 THEN Throw(m, jsError(RANGE_ERROR))
    ELSE IF throwIfNot("isValidEvent", event, EVENT_ERROR) # NoExc
    THEN Throw(m, throwIfNot("isValidEvent", event, EVENT_ERROR))
    ELSE IF throwIfNot("isValidCallback", callback, CALLBACK_ERROR) # NoExc
    THEN Throw(m, throwIfNot("isValidCallback", callback, CALLBACK_ERROR))
    ELSE Bind(emit(mapSet(m, event.s,
                          uniq(concat(info(m.reg, event.s).listeners, callback.id))),
                   jsString(ADDED),
                   <<[event |-> event.s, callback |-> callback.id]>>, d - 1),
              LAMBDA r : IF r.exc # NoExc THEN r
                         ELSE Return(r, Unsubscribe(event.s, callback.id)))

\* a one that makes one adapter per (event, callback) and registers it again
oneMemoized(m, event, callback, d) ==
    IF d = 0 THEN Throw(m, jsError(RANGE_ERROR))
    ELSE IF \E k \in 1..Len(m.ads) : m.ads[k] = [event |-> event, callback |-> callback]
    THEN on(m, event,
            jsFunction(SingleNames[CHOOSE k \in 1..Len(m.ads) :
                           m.ads[k] = [event |-> event, callback |-> callback]]),
            d - 1)
    ELSE on([m EXCEPT !.ads = Append(@, [event |-> event, callback |-> callback]),
                      !.fired = Append(@, 0)],
            event, jsFunction(SingleNames[Len(m.ads) + 1]), d - 1)

one(m, event, callback, d) ==
    IF d = 0 THEN Throw(m, jsError(RANGE_ERROR))
    ELSE on([m EXCEPT !.ads = Append(@, [event |-> event, callback |-> callback]),
                      !.fired = Append(@, 0)],
            event, jsFunction(SingleNames[Len(m.ads) + 1]), d - 1)

\* a returned function that clears the event it was made for
unsubscribeClears(m, fn, d) ==
    IF d = 0 THEN Throw(m, jsError(RANGE_ERROR))
    ELSE removeAllListeners(m, jsString(fn.event), d - 1)

\* a returned function that writes and emits listenerRemoved on every call
unsubscribeAlways(m, fn, d) ==
    IF d = 0 THEN Throw(m, jsError(RANGE_ERROR))
    ELSE emit(IF isEmpty(without(info(m.reg, fn.event).listeners, fn.callback))
              THEN mapDelete(m, fn.event)
              ELSE mapSet(m, fn.event,
                          without(info(m.reg, fn.event).listeners, fn.callback)),
              jsString(REMOVED),
              <<[event |-> fn.event, callback |-> fn.callback]>>, d - 1)

\* Calling fn, a function that on returned: () => this.off(event, callback).
unsubscribe(m, fn, d) ==
    IF d = 0 THEN Throw(m, jsError(RANGE_ERROR))
    ELSE off(m, jsString(fn.event), jsFunction(fn.callback), d - 1)

\* a removal that emits listenerRemoved before it stores the list
removeEmitsFirst(m, event, callback, listeners, updated, d) ==
    IF Len(listeners) # Len(updated)
    THEN Bind(emit(m, jsString(REMOVED),
                   <<[event |-> event.s, callback |-> callback.id]>>, d - 1),
              LAMBDA r : IF r.exc # NoExc THEN r
                         ELSE IF isEmpty(updated) THEN mapDelete(r, event.s)
                         ELSE mapSet(r, event.s, updated))
    ELSE Return(m, Undefined)

\* a removal that writes and emits whether or not the list changed
removeUnconditional(m, event, callback, listeners, updated, d) ==
    emit(IF isEmpty(updated) THEN mapDelete(m, event.s)
         ELSE mapSet(m, event.s, updated),
         jsString(REMOVED),
         <<[event |-> event.s, callback |-> callback.id]>>, d - 1)

\* off, once its arguments are checked: updated is without(listeners, callback)
remove(m, event, callback, listeners, updated, d) ==
    IF Len(listeners) # Len(updated)
    THEN emit(IF isEmpty(updated) THEN mapDelete(m, event.s)
              ELSE mapSet(m, event.s, updated),
              jsString(REMOVED),
              <<[event |-> event.s, callback |-> callback.id]>>, d - 1)
    ELSE Return(m, Undefined)

off(m, event, callback, d) ==
    IF d = 0 THEN Throw(m, jsError(RANGE_ERROR))
    ELSE IF throwIfNot("isValidEvent", event, EVENT_ERROR) # NoExc
    THEN Throw(m, throwIfNot("isValidEvent", event, EVENT_ERROR))
    ELSE IF throwIfNot("isValidCallback", callback, CALLBACK_ERROR) # NoExc
    THEN Throw(m, throwIfNot("isValidCallback", callback, CALLBACK_ERROR))
    ELSE remove(m, event, callback, info(m.reg, event.s).listeners,
                without(info(m.reg, event.s).listeners, callback.id), d)

\* a loop of removeAllListeners that reads the list anew at every step
forEachOffLive(m, listeners, i, event, d) ==
    IF i > Len(info(m.reg, event.s).listeners) THEN m
    ELSE Bind(off(m, event, jsFunction(info(m.reg, event.s).listeners[i]), d - 1),
              LAMBDA r : IF r.exc # NoExc THEN r
                         ELSE forEachOffLive(r, listeners, i + 1, event, d))

\* forEach(listeners, (callback) => this.off(event, callback)), from index i on
forEachOff(m, listeners, i, event, d) ==
    IF i > Len(listeners) THEN m
    ELSE Bind(off(m, event, jsFunction(listeners[i]), d - 1),
              LAMBDA r : IF r.exc # NoExc THEN r
                         ELSE forEachOff(r, listeners, i + 1, event, d))

\* a removeAllListeners that drops the list at once and emits one
\* listenerRemoved for the lot
removeAllListenersBatch(m, event, d) ==
    IF d = 0 THEN Throw(m, jsError(RANGE_ERROR))
    ELSE IF throwIfNot("isValidEvent", event, EVENT_ERROR) # NoExc
    THEN Throw(m, throwIfNot("isValidEvent", event, EVENT_ERROR))
    ELSE IF isEmpty(info(m.reg, event.s).listeners) THEN Return(m, Undefined)
    ELSE Bind(emit(mapDelete(m, event.s), jsString(REMOVED),
                   <<[event |-> event.s,
                      callback |-> info(m.reg, event.s).listeners[1]]>>, d - 1),
              LAMBDA r : IF r.exc # NoExc THEN r ELSE Return(r, Undefined))

removeAllListeners(m, event, d) ==
    IF d = 0 THEN Throw(m, jsError(RANGE_ERROR))
    ELSE IF throwIfNot("isValidEvent", event, EVENT_ERROR) # NoExc
    THEN Throw(m, throwIfNot("isValidEvent", event, EVENT_ERROR))
    ELSE Bind(forEachOff(m, info(m.reg, event.s).listeners, 1, event, d),
              LAMBDA r : IF r.exc # NoExc THEN r ELSE Return(r, Undefined))

(***************************************************************************)
(* The client: one action per public method, called from outside any       *)
(* listener with an empty log and the whole call stack free.               *)
(***************************************************************************)
FunctionNames ==
    {"f1", "thrower", "returnsError", "selfRemover", "removesF1", "addsF1"}

\* What a client passes as an event: valid names, and values that are not.
ValidEvents == {jsString(A), jsString(B), jsString(ERROR), jsString(ADDED),
                jsString(REMOVED)}
InvalidEvents ==
    {jsString(<<>>), jsString(<<" ", " ", " ">>), jsNumber("123"), Null}
\* ... and as a callback.
InvalidCallbacks == {Null, jsNumber("123")}
EventInputs == ValidEvents \cup InvalidEvents

\* The (event, callback) pairs a client passes to on and off: every function
\* for event a, some of them for the other events, and invalid arguments.
ValidPairs ==
    {<<jsString(A), jsFunction(n)>> : n \in FunctionNames}
        \cup {<<e, jsFunction("f1")>> : e \in ValidEvents}
        \cup {<<jsString(ERROR), jsFunction("thrower")>>,
              <<jsString(ERROR), jsFunction("returnsError")>>}
InvalidPairs ==
    {<<e, jsFunction("f1")>> : e \in InvalidEvents}
        \cup {<<jsString(A), c>> : c \in InvalidCallbacks}
        \cup {<<jsString(<<>>), Null>>}
PairInputs == ValidPairs \cup InvalidPairs

ArgLists == {<<jsNumber("123"), jsString(<<"a", "b", "c">>), Null>>}

\* argument lists of other lengths and types
AnnounceArgs ==
    ArgLists \cup {<<>>, <<jsFunction("f1"), Placeholder>>}

RECURSIVE SumLen(_, _)
SumLen(map, events) ==
    IF events = {} THEN 0
    ELSE LET e == CHOOSE x \in events : TRUE
         IN  Len(map[e]) + SumLen(map, events \ {e})

Size(map) == SumLen(map, DOMAIN map)

\* The state a call starts in.
Start == [reg |-> registry, log |-> <<>>, exc |-> NoExc, val |-> Undefined,
          ads |-> adapters, fired |-> fired]

\* An adapter that nothing refers to any more (garbage): neither a list of
\* the registry nor the unsubscribe function the client holds.
Collected == [event |-> Undefined, callback |-> Undefined]

\* The state a call leaves; the client holds fn.
Outcome(r, fn, op, event, callback, args) ==
    /\ registry' = r.reg
    /\ log' = r.log
    /\ last' = [op |-> op, event |-> event, callback |-> callback, args |-> args,
                before |-> registry, exc |-> r.exc, val |-> r.val]
    /\ adapters' = [k \in 1..Len(r.ads) |->
                       IF \/ \E e \in DOMAIN r.reg :
                                \E i \in 1..Len(r.reg[e]) : r.reg[e][i] = SingleNames[k]
                          \/ fn.t = "function" /\ fn.callback = SingleNames[k]
                       THEN r.ads[k] ELSE Collected]
    /\ fired' = r.fired
    /\ handle' = fn
    /\ other' = other

\* broker.method(...): the client drops what the call returns.
Finish(r, op, event, callback, args) ==
    Outcome(r, handle, op, event, callback, args)

\* off = broker.method(...): the client keeps the function the call returns
\* (nothing is assigned when the call throws).
Keep(r, op, event, callback, args) ==
    Outcome(r, IF r.exc = NoExc THEN r.val ELSE handle, op, event, callback, args)

\* new Broker()
Init ==
    /\ registry = <<>>
    /\ log = <<>>
    /\ last = [op |-> "new", event |-> Undefined, callback |-> Undefined,
               args |-> <<>>, before |-> <<>>, exc |-> NoExc, val |-> Undefined]
    /\ adapters = <<>>
    /\ fired = <<>>
    /\ handle = Undefined
    /\ other = <<>>

On ==
    \E p \in PairInputs :
        /\ Size(registry) < MaxListeners
        /\ \E r \in {on(Start, p[1], p[2], MaxDepth)} :
               Finish(r, "on", p[1], p[2], <<>>)

Off ==
    \E p \in PairInputs :
        \E r \in {off(Start, p[1], p[2], MaxDepth)} :
            Finish(r, "off", p[1], p[2], <<>>)

RemoveAllListeners ==
    \E event \in EventInputs :
        \E r \in {removeAllListeners(Start, event, MaxDepth)} :
            Finish(r, "removeAllListeners", event, Undefined, <<>>)

Emit ==
    \E event \in EventInputs, args \in ArgLists :
        \E r \in {emit(Start, event, args, MaxDepth)} :
            Finish(r, "emit", event, Undefined, args)

Next == On \/ Off \/ RemoveAllListeners \/ Emit

Spec == Init /\ [][Next]_vars

(***************************************************************************)
(* A client that also registers listeners with one and keeps the function  *)
(* that on and one return, to call it later.                               *)
(***************************************************************************)
\* What this client passes to one: listeners that return, throw or return an
\* error, a value that is no function, several events, an invalid event.
OnePairs ==
    {<<jsString(A), c>> : c \in {jsFunction("f1"), jsFunction("thrower"), Null}}
        \cup {<<jsString(<<" ", " ", " ">>), jsFunction("f1")>>}

\* ... and to on and off.
KeptPairs ==
    {<<jsString(A), jsFunction("f1")>>, <<jsString(A), jsFunction("thrower")>>,
     <<jsString(B), jsFunction("f1")>>}

\* The events this client emits and clears.
OnceEvents == {jsString(A), jsString(B)}

\* off = broker.one(event, callback)
One ==
    \E p \in OnePairs :
        /\ Len(adapters) < MaxAdapters
        /\ Size(registry) < MaxOnceListeners
        /\ \E r \in {one(Start, p[1], p[2], MaxDepth)} :
               Keep(r, "one", p[1], p[2], <<>>)

\* off = broker.on(event, callback), or broker.on(event, callback)
Subscribe ==
    \E p \in KeptPairs :
        /\ Size(registry) < MaxOnceListeners
        /\ \E r \in {on(Start, p[1], p[2], MaxDepth)} :
               \/ Keep(r, "on", p[1], p[2], <<>>)
               \/ Finish(r, "on", p[1], p[2], <<>>)

\* off()
CallHandle ==
    /\ handle.t = "function"
    /\ \E r \in {unsubscribe(Start, handle, MaxDepth)} :
           Finish(r, "unsubscribe", jsString(handle.event),
                  jsFunction(handle.callback), <<>>)

\* broker.off(event, callback)
Unregister ==
    \E p \in KeptPairs :
        \E r \in {off(Start, p[1], p[2], MaxDepth)} :
            Finish(r, "off", p[1], p[2], <<>>)

\* broker.removeAllListeners(event)
Clear ==
    \E event \in OnceEvents :
        \E r \in {removeAllListeners(Start, event, MaxDepth)} :
            Finish(r, "removeAllListeners", event, Undefined, <<>>)

\* broker.emit(event, ...args)
Fire ==
    \E event \in OnceEvents, args \in ArgLists :
        \E r \in {emit(Start, event, args, MaxDepth)} :
            Finish(r, "emit", event, Undefined, args)

NextOnce == One \/ Subscribe \/ CallHandle \/ Unregister \/ Clear \/ Fire

SpecOnce == Init /\ [][NextOnce]_vars

(***************************************************************************)
(* A client that listens to the lifecycle events (listenerAdded,           *)
(* listenerRemoved, `error`), with listeners that return and listeners     *)
(* that throw, and registers and removes listeners under the aliases of    *)
(* on, off and emit.                                                       *)
(***************************************************************************)
LifecyclePairs ==
    {<<e, jsFunction(n)>> : e \in {jsString(A), jsString(ADDED), jsString(REMOVED),
                                  jsString(ERROR)},
                            n \in {"f1", "thrower"}}
        \cup {<<jsString(B), jsFunction("f1")>>}

LifecycleEvents == {jsString(A), jsString(B), jsString(ADDED), jsString(REMOVED),
                    jsString(ERROR)}

\* broker.addListener(event, callback)
AddListener ==
    \E p \in LifecyclePairs :
        /\ Size(registry) < MaxListeners
        /\ \E r \in {on(Start, p[1], p[2], MaxDepth)} :
               Finish(r, "on", p[1], p[2], <<>>)

\* broker.removeListener(event, callback)
RemoveListener ==
    \E p \in LifecyclePairs :
        \E r \in {off(Start, p[1], p[2], MaxDepth)} :
            Finish(r, "off", p[1], p[2], <<>>)

\* broker.removeAllListeners(event)
RemoveAll ==
    \E event \in LifecycleEvents :
        \E r \in {removeAllListeners(Start, event, MaxDepth)} :
            Finish(r, "removeAllListeners", event, Undefined, <<>>)

\* broker.announce(event, ...args)
Announce ==
    \E event \in LifecycleEvents, args \in AnnounceArgs :
        \E r \in {emit(Start, event, args, MaxDepth)} :
            Finish(r, "emit", event, Undefined, args)

NextLifecycle == AddListener \/ RemoveListener \/ RemoveAll \/ Announce

SpecLifecycle == Init /\ [][NextLifecycle]_vars

(***************************************************************************)
(* Two instances: broker 1 (registry) and broker 2 (other), made by two    *)
(* calls of new Broker() in the same program.                              *)
(***************************************************************************)
Instances == {1, 2}

\* one map for all the instances
dataGetShared(ctx) == registry

\* data.get(ctx).map: the map the constructor stored for the instance
dataGet(ctx) == IF ctx = 1 THEN registry ELSE other

InstancePairs ==
    {<<jsString(A), jsFunction("f1")>>, <<jsString(A), jsFunction("thrower")>>,
     <<jsString(B), jsFunction("f1")>>}
InstanceEvents == {jsString(A), jsString(B)}

\* The state a call of a method of instance ctx starts in.
StartOf(ctx) == [Start EXCEPT !.reg = dataGet(ctx)]

\* The state a call of a method of instance ctx leaves: the map of ctx holds
\* what the call wrote.  last.peer is the map of the other instance when
\* the call started.
OutcomeOf(ctx, r, op, event, callback, args) ==
    /\ registry' = IF ctx = 1 THEN r.reg ELSE registry
    /\ other' = IF ctx = 2 THEN r.reg ELSE other
    /\ log' = r.log
    /\ last' = [op |-> op, event |-> event, callback |-> callback, args |-> args,
                before |-> IF ctx = 1 THEN registry ELSE other,
                exc |-> r.exc, val |-> r.val,
                this |-> ctx, peer |-> IF ctx = 1 THEN other ELSE registry]
    /\ UNCHANGED <<adapters, fired, handle>>

\* brokers[ctx].on(event, callback)
OnAt ==
    \E ctx \in Instances, p \in InstancePairs :
        /\ Size(registry) + Size(other) < MaxListeners
        /\ \E r \in {on(StartOf(ctx), p[1], p[2], MaxDepth)} :
               OutcomeOf(ctx, r, "on", p[1], p[2], <<>>)

\* brokers[ctx].off(event, callback)
OffAt ==
    \E ctx \in Instances, p \in InstancePairs :
        \E r \in {off(StartOf(ctx), p[1], p[2], MaxDepth)} :
            OutcomeOf(ctx, r, "off", p[1], p[2], <<>>)

\* brokers[ctx].removeAllListeners(event)
RemoveAllListenersAt ==
    \E ctx \in Instances, event \in InstanceEvents :
        \E r \in {removeAllListeners(StartOf(ctx), event, MaxDepth)} :
            OutcomeOf(ctx, r, "removeAllListeners", event, Undefined, <<>>)

\* brokers[ctx].emit(event, ...args)
EmitAt ==
    \E ctx \in Instances, event \in InstanceEvents, args \in ArgLists :
        \E r \in {emit(StartOf(ctx), event, args, MaxDepth)} :
            OutcomeOf(ctx, r, "emit", event, Undefined, args)

NextInstances == OnAt \/ OffAt \/ RemoveAllListenersAt \/ EmitAt

SpecInstances == Init /\ [][NextInstances]_vars

(***************************************************************************)
(* A client whose listeners emit: emitsB emits b, reEmitter removes itself *)
(* from a's list and emits a again (addsF1 registers f1 for a).            *)
(***************************************************************************)
NestedPairs ==
    {<<jsString(A), jsFunction(n)>> :
        n \in {"emitsB", "reEmitter", "f1", "returnsValue", "addsF1"}}
        \cup {<<jsString(B), jsFunction(n)>> : n \in {"f1", "thrower"}}
NestedEvents == {jsString(A), jsString(B)}

\* broker.on(event, callback)
Listen ==
    \E p \in NestedPairs :
        /\ Size(registry) < MaxListeners
        /\ \E r \in {on(Start, p[1], p[2], MaxDepth)} :
               Finish(r, "on", p[1], p[2], <<>>)

\* broker.off(event, callback)
Unlisten ==
    \E p \in NestedPairs :
        \E r \in {off(Start, p[1], p[2], MaxDepth)} :
            Finish(r, "off", p[1], p[2], <<>>)

\* broker.emit(event, ...args)
Trigger ==
    \E event \in NestedEvents, args \in ArgLists :
        \E r \in {emit(Start, event, args, MaxDepth)} :
            Finish(r, "emit", event, Undefined, args)

NextNested == Listen \/ Unlisten \/ Trigger

SpecNested == Init /\ [][NextNested]_vars

(***************************************************************************)
(* A client whose listeners of listenerRemoved change the list being       *)
(* or of `error` change the list being cleared: addsF1 registers f1 for a, *)
(* removesThrower takes thrower off a.                                     *)
(***************************************************************************)
ClearPairs ==
    {<<jsString(A), jsFunction(n)>> : n \in {"f1", "thrower"}}
        \cup {<<jsString(REMOVED), jsFunction(n)>> :
                  n \in {"addsF1", "removesThrower", "thrower"}}
        \cup {<<jsString(ERROR), jsFunction("addsF1")>>}
ClearEvents == {jsString(A), jsString(REMOVED)}

\* Room on the call stack for the deepest chain of calls these listeners
\* make (none of them calls without end).
DeepStack == 3 * MaxDepth

\* broker.on(event, callback)
Attach ==
    \E p \in ClearPairs :
        /\ Size(registry) < MaxListeners
        /\ \E r \in {on(Start, p[1], p[2], DeepStack)} :
               Finish(r, "on", p[1], p[2], <<>>)

\* broker.off(event, callback)
Detach ==
    \E p \in ClearPairs :
        \E r \in {off(Start, p[1], p[2], DeepStack)} :
            Finish(r, "off", p[1], p[2], <<>>)

\* broker.removeAllListeners(event)
Purge ==
    \E event \in ClearEvents :
        \E r \in {removeAllListeners(Start, event, DeepStack)} :
            Finish(r, "removeAllListeners", event, Undefined, <<>>)

NextClear == Attach \/ Detach \/ Purge

SpecClear == Init /\ [][NextClear]_vars

(***************************************************************************)
(* A client that uses event names with whitespace around them.             *)
(***************************************************************************)
PaddedA == <<" ", "a">>
APadded == <<"a", " ">>

NameEvents == {jsString(A), jsString(PaddedA), jsString(APadded)}
NamePairs == {<<e, jsFunction(n)>> : e \in NameEvents, n \in {"f1", "thrower"}}

\* broker.on(event, callback)
OnName ==
    \E p \in NamePairs :
        /\ Size(registry) < MaxListeners
        /\ \E r \in {on(Start, p[1], p[2], MaxDepth)} :
               Finish(r, "on", p[1], p[2], <<>>)

\* broker.off(event, callback)
OffName ==
    \E p \in NamePairs :
        \E r \in {off(Start, p[1], p[2], MaxDepth)} :
            Finish(r, "off", p[1], p[2], <<>>)

\* broker.removeAllListeners(event)
RemoveAllName ==
    \E event \in NameEvents :
        \E r \in {removeAllListeners(Start, event, MaxDepth)} :
            Finish(r, "removeAllListeners", event, Undefined, <<>>)

\* broker.emit(event, ...args)
EmitName ==
    \E event \in NameEvents, args \in ArgLists :
        \E r \in {emit(Start, event, args, MaxDepth)} :
            Finish(r, "emit", event, Undefined, args)

NextNames == OnName \/ OffName \/ RemoveAllName \/ EmitName

SpecNames == Init /\ [][NextNames]_vars

(***************************************************************************)
(* A client whose listeners of `error` and of listenerAdded may fail.      *)
(***************************************************************************)
FailingPairs ==
    {<<jsString(A), jsFunction(n)>> : n \in {"f1", "thrower", "returnsError"}}
        \cup {<<jsString(ERROR), jsFunction(n)>> : n \in {"f1", "returnsError"}}
        \cup {<<jsString(ADDED), jsFunction("thrower")>>}
FailingEvents == {jsString(A), jsString(ERROR)}

\* broker.on(event, callback)
OnFailing ==
    \E p \in FailingPairs :
        /\ Size(registry) < MaxListeners
        /\ \E r \in {on(Start, p[1], p[2], MaxDepth)} :
               Finish(r, "on", p[1], p[2], <<>>)

\* broker.off(event, callback)
OffFailing ==
    \E p \in FailingPairs :
        \E r \in {off(Start, p[1], p[2], MaxDepth)} :
            Finish(r, "off", p[1], p[2], <<>>)

\* broker.removeAllListeners(event)
RemoveAllFailing ==
    \E event \in FailingEvents :
        \E r \in {removeAllListeners(Start, event, MaxDepth)} :
            Finish(r, "removeAllListeners", event, Undefined, <<>>)

\* broker.emit(event, ...args)
EmitFailing ==
    \E event \in FailingEvents, args \in ArgLists :
        \E r \in {emit(Start, event, args, MaxDepth)} :
            Finish(r, "emit", event, Undefined, args)

NextFailing == OnFailing \/ OffFailing \/ RemoveAllFailing \/ EmitFailing

SpecFailing == Init /\ [][NextFailing]_vars

(***************************************************************************)
(* A client that names an event, and passes as an argument, the string     *)
(* lodash's bind takes for a hole, and whose listeners throw a number.     *)
(***************************************************************************)
HoleEvents == {jsString(A), jsString(PLACEHOLDER)}
HolePairs ==
    {<<e, jsFunction(n)>> : e \in HoleEvents, n \in {"f1", "throwsNumber"}}
        \cup {<<jsString(ERROR), jsFunction("f1")>>}
HoleArgs == ArgLists \cup {<<jsString(PLACEHOLDER), jsNumber("5")>>}

\* broker.on(event, callback)
OnHole ==
    \E p \in HolePairs :
        /\ Size(registry) < MaxListeners
        /\ \E r \in {on(Start, p[1], p[2], MaxDepth)} :
               Finish(r, "on", p[1], p[2], <<>>)

\* broker.off(event, callback)
OffHole ==
    \E p \in HolePairs :
        \E r \in {off(Start, p[1], p[2], MaxDepth)} :
            Finish(r, "off", p[1], p[2], <<>>)

\* broker.removeAllListeners(event)
RemoveAllHole ==
    \E event \in HoleEvents :
        \E r \in {removeAllListeners(Start, event, MaxDepth)} :
            Finish(r, "removeAllListeners", event, Undefined, <<>>)

\* broker.emit(event, ...args)
EmitHole ==
    \E event \in HoleEvents, args \in HoleArgs :
        \E r \in {emit(Start, event, args, MaxDepth)} :
            Finish(r, "emit", event, Undefined, args)

NextHole == OnHole \/ OffHole \/ RemoveAllHole \/ EmitHole

SpecHole == Init /\ [][NextHole]_vars

(***************************************************************************)
(* Reading the log of the last call.                                       *)
(***************************************************************************)
\* The emission rounds of the call: the indices of their "emit" entries.
Rounds == {i \in 1..Len(log) : log[i].t = "emit"}

\* The listener invocations made by round rid, as indices of the log.
CallsIn(rid) == {i \in 1..Len(log) : log[i].t = "call" /\ log[i].rid = rid}

\* Round rid ran to its end.
Completed(rid) == \E j \in 1..Len(log) : log[j].t = "emitted" /\ log[j].rid = rid

EndOf(rid) == CHOOSE j \in 1..Len(log) : log[j].t = "emitted" /\ log[j].rid = rid

\* The snapshot round rid iterates.
Snapshot(rid) == log[rid].listeners

Members(list) == {list[k] : k \in 1..Len(list)}

\* The last call was a call of emit with a valid event.
EmitCalled == last.op = "emit" /\ isValidEvent(last.event)

\* The list the registry held for the event of the last call when it started.
ListBefore == info(last.before, last.event.s).listeners

(***************************************************************************)
(* C1.  emit invokes the listeners of a round in the order of the event's  *)
(* list, which is the order of registration: of two invocations made by    *)
(* one round, the earlier one is of the listener that comes first in the   *)
(* list the round started with, and the round of a call of emit starts     *)
(* with the list the registry held for the event; a call of on leaves the  *)
(* list as it was with the listener, if new, at its end.                   *)
(***************************************************************************)
C1_RegistrationOrder ==
    /\ \A rid \in Rounds : \A i, j \in CallsIn(rid) :
           i < j => \E p, q \in 1..Len(Snapshot(rid)) :
                        /\ p < q
                        /\ Snapshot(rid)[p] = log[i].callback
                        /\ Snapshot(rid)[q] = log[j].callback
    /\ EmitCalled => log[1].t = "emit" /\ Snapshot(1) = ListBefore
    /\ last.op = "on" /\ last.exc = NoExc =>
           info(registry, last.event.s).listeners =
               IF last.callback.id \in Members(ListBefore) THEN ListBefore
               ELSE Append(ListBefore, last.callback.id)

\* A call of emit returned after invoking three listeners.
C1_Witness ==
    /\ EmitCalled /\ last.exc = NoExc
    /\ Len(ListBefore) = 3
    /\ Cardinality(CallsIn(1)) = 3

(***************************************************************************)
(* C2, for the rounds that run.  emit is synchronous: a round that runs to *)
(* its end has invoked every listener of the list it started with exactly  *)
(* once and no other, each invocation has returned before the round ends,  *)
(* and a call of emit that returns has run the round of the list the       *)
(* registry held when the call started, the end of that round being the    *)
(* last thing that happens.                                                *)
(***************************************************************************)
C2_EmitComplete ==
    /\ \A rid \in Rounds : Completed(rid) =>
           /\ \A k \in 1..Len(Snapshot(rid)) :
                  Cardinality({i \in CallsIn(rid) :
                                  log[i].callback = Snapshot(rid)[k]}) = 1
           /\ \A i \in CallsIn(rid) :
                  /\ log[i].callback \in Members(Snapshot(rid))
                  /\ rid < i /\ i < EndOf(rid)
                  /\ \E j \in (i + 1)..(EndOf(rid) - 1) :
                         /\ log[j].t = "return"
                         /\ log[j].rid = rid
                         /\ log[j].callback = log[i].callback
    /\ EmitCalled /\ last.exc = NoExc =>
           /\ log[1].t = "emit" /\ Snapshot(1) = ListBefore
           /\ Completed(1) /\ EndOf(1) = Len(log)

\* on(e, f) was followed by emit(e), which returned: f is in the list.
C2_Witness ==
    /\ EmitCalled /\ last.exc = NoExc
    /\ Len(ListBefore) >= 2
    /\ \E i \in CallsIn(1) : log[i].callback = ListBefore[Len(ListBefore)]

(***************************************************************************)
(* C3.  No listener appears twice in the list of an event: not in the      *)
(* registry a call leaves, nor in any list written to the registry during  *)
(* the call (by on and off, called by the client or by a listener); hence  *)
(* no round invokes a listener twice, however often it was registered.     *)
(***************************************************************************)
NoDuplicates(list) == \A p, q \in 1..Len(list) : list[p] = list[q] => p = q

C3_NoDuplicates ==
    /\ \A e \in DOMAIN registry : NoDuplicates(registry[e])
    /\ \A i \in 1..Len(log) : log[i].t = "set" => NoDuplicates(log[i].listeners)
    /\ \A rid \in Rounds :
           /\ NoDuplicates(Snapshot(rid))
           /\ \A i, j \in CallsIn(rid) : log[i].callback = log[j].callback => i = j

\* on was called for a listener already registered for the event.
C3_Witness ==
    /\ last.op = "on" /\ last.exc = NoExc
    /\ last.callback.id \in Members(ListBefore)
    /\ Len(ListBefore) >= 2

(***************************************************************************)
(* What happens to the list of the event of round rid while the round      *)
(* runs.                                                                   *)
(***************************************************************************)
\* Entry j of the log lies inside round rid (a round that ran to its end).
Inside(rid, j) == rid < j /\ j < EndOf(rid)

\* Entry j writes, for event e, a list without g.
Removes(j, e, g) ==
    \/ log[j].t = "delete" /\ log[j].event = e
    \/ log[j].t = "set" /\ log[j].event = e /\ g \notin Members(log[j].listeners)

\* Entry j writes, for event e, a list with g.
Adds(j, e, g) ==
    log[j].t = "set" /\ log[j].event = e /\ g \in Members(log[j].listeners)

\* Round rid invokes g before / after entry j.
InvokedBefore(rid, g, j) == \E i \in CallsIn(rid) : i < j /\ log[i].callback = g
InvokedAfter(rid, g, j) == \E i \in CallsIn(rid) : i > j /\ log[i].callback = g

\* The listeners round rid invoked, in the order of their invocation.
Invoked(rid) ==
    LET calls == SelectSeq(log, LAMBDA x : x.t = "call" /\ x.rid = rid)
    IN  [i \in 1..Len(calls) |-> calls[i].callback]

(***************************************************************************)
(* C4.  Snapshot semantics for removal: when, inside a round for e that    *)
(* runs to its end, a listener g of the round's list is removed from e's   *)
(* list before the round has invoked it, the round still invokes it        *)
(* afterwards; and unless g is registered again, later rounds for e do not *)
(* have it in their list and the registry the call leaves does not either. *)
(***************************************************************************)
C4_RemovedStillInvoked ==
    \A rid \in Rounds : Completed(rid) =>
        \A j \in 1..Len(log), g \in Members(Snapshot(rid)) :
            (/\ Inside(rid, j)
             /\ Removes(j, log[rid].event, g)
             /\ ~InvokedBefore(rid, g, j))
            => /\ InvokedAfter(rid, g, j)
               /\ (\A k \in (j + 1)..Len(log) : ~Adds(k, log[rid].event, g))
                  => /\ g \notin Members(info(registry, log[rid].event).listeners)
                     /\ \A later \in Rounds :
                            later > j /\ log[later].event = log[rid].event
                            => g \notin Members(Snapshot(later))

\* A listener removed f1 before the round reached f1, and the round ended.
C4_Witness ==
    \E rid \in Rounds, j \in 1..Len(log) :
        /\ Completed(rid) /\ Inside(rid, j)
        /\ "f1" \in Members(Snapshot(rid))
        /\ Removes(j, log[rid].event, "f1")
        /\ ~InvokedBefore(rid, "f1", j)
        /\ InvokedAfter(rid, "f1", j)
        /\ "f1" \notin Members(info(registry, log[rid].event).listeners)

(***************************************************************************)
(* C5.  Snapshot semantics for addition: a listener g that is not in the   *)
(* list a round for e started with and is registered for e while the round *)
(* runs is not invoked by that round; unless it is removed again it is in  *)
(* the list of the later rounds for e and in the registry the call leaves, *)
(* and a call of emit that returns invokes every listener the registry     *)
(* held for the event when the call started.                               *)
(***************************************************************************)
C5_AddedNotInvoked ==
    /\ \A rid \in Rounds, j \in 1..Len(log) :
           \A g \in FunctionNames \ Members(Snapshot(rid)) :
               (/\ rid < j /\ (Completed(rid) => j < EndOf(rid))
                /\ Adds(j, log[rid].event, g))
               => /\ \A i \in CallsIn(rid) : log[i].callback # g
                  /\ (\A k \in (j + 1)..Len(log) : ~Removes(k, log[rid].event, g))
                     => /\ g \in Members(info(registry, log[rid].event).listeners)
                        /\ \A later \in Rounds :
                               later > j /\ log[later].event = log[rid].event
                               => g \in Members(Snapshot(later))
    /\ EmitCalled /\ last.exc = NoExc =>
           \A g \in Members(ListBefore) : \E i \in CallsIn(1) : log[i].callback = g

\* A listener registered f1 for the event being emitted; f1 was not in the
\* round's list, and the round ended.
C5_Witness ==
    \E rid \in Rounds, j \in 1..Len(log) :
        /\ Completed(rid) /\ Inside(rid, j)
        /\ "f1" \notin Members(Snapshot(rid))
        /\ Adds(j, log[rid].event, "f1")
        /\ "f1" \in Members(info(registry, log[rid].event).listeners)

(***************************************************************************)
(* C6.  A listener k that removes itself from e's list while a round for e *)
(* is invoking it makes the round neither skip nor repeat a listener: when *)
(* the round has run to its end, the listeners other than k that it        *)
(* invoked are the listeners other than k of its list, each once, in the   *)
(* order of the list (and k itself was invoked once).                      *)
(***************************************************************************)
\* k removed itself from e's list during its invocation by round rid.
SelfRemoved(rid, k) ==
    \E i \in CallsIn(rid), j \in 1..Len(log) :
        /\ log[i].callback = k
        /\ i < j
        /\ Removes(j, log[rid].event, k)
        /\ \A x \in i..j : ~(log[x].t = "return" /\ log[x].rid = rid
                             /\ log[x].callback = k)

C6_SelfRemovalSkipsNone ==
    \A rid \in Rounds, k \in FunctionNames :
        Completed(rid) /\ SelfRemoved(rid, k) =>
            /\ without(Invoked(rid), k) = without(Snapshot(rid), k)
            /\ Cardinality({i \in CallsIn(rid) : log[i].callback = k}) = 1

\* The second of three listeners removed itself, and the round ended.
C6_Witness ==
    \E rid \in Rounds :
        /\ Completed(rid)
        /\ Len(Snapshot(rid)) = 3
        /\ SelfRemoved(rid, Snapshot(rid)[2])
        /\ Snapshot(rid)[2] = "selfRemover"

(***************************************************************************)
(* Failures.                                                               *)
(***************************************************************************)
\* Entry j is the end of an invocation in which the listener threw.
Threw(j) == log[j].t = "return" /\ log[j].threw

\* Entry j is the end of an invocation that handed announce an error.
Failed(j) == log[j].t = "return" /\ isError(log[j].value)

\* A listener of the `error` event failed during the call.
ErrorListenerFailed ==
    \E j \in 1..Len(log) : Failed(j) /\ log[log[j].rid].event = ERROR

\* The call stack overflowed during the call.
Overflowed ==
    \/ last.exc = jsError(RANGE_ERROR)
    \/ \E j \in 1..Len(log) : log[j].t = "return" /\ log[j].value = jsError(RANGE_ERROR)

\* The listeners that follow g in the list round rid started with.
After(rid, g) ==
    {Snapshot(rid)[q] : q \in {q \in 1..Len(Snapshot(rid)) :
        \E p \in 1..(q - 1) : Snapshot(rid)[p] = g}}

\* Entry k is the emission of `error` for the invocation that ended at j.
ErrorEmission(k, j) ==
    /\ log[k].t = "emit"
    /\ log[k].event = ERROR
    /\ log[k].args = <<[event |-> log[log[j].rid].event,
                        callback |-> log[j].callback,
                        error |-> log[j].value]>>

(***************************************************************************)
(* C7, as claimed.  When a listener throws during a round, every listener  *)
(* after it in the round's list is invoked afterwards by the round, and    *)
(* what the listener threw does not reach the caller of emit.              *)
(***************************************************************************)
C7_Original ==
    \A j \in 1..Len(log) : Threw(j) =>
        /\ \A g \in After(log[j].rid, log[j].callback) :
               InvokedAfter(log[j].rid, g, j)
        /\ last.exc # log[j].value

(***************************************************************************)
(* C7, amended.  When a listener throws during a round, the failure is     *)
(* caught: unless the call stack overflows (which a failing listener of    *)
(* `error` causes, `error` being emitted again for its own failure), every *)
(* listener after it in the round's list is invoked afterwards by the      *)
(* round; and the only exception a listener failure can make a call of     *)
(* emit raise is that overflow, never what the listener threw.             *)
(***************************************************************************)
C7_ErrorIsolation ==
    /\ ~Overflowed =>
           \A j \in 1..Len(log) : Threw(j) =>
               \A g \in After(log[j].rid, log[j].callback) :
                   InvokedAfter(log[j].rid, g, j)
    /\ EmitCalled => last.exc \in {NoExc, jsError(RANGE_ERROR)}
    /\ last.exc = jsError(RANGE_ERROR) => ErrorListenerFailed

\* The first of three listeners threw and the round invoked the other two.
C7_Witness ==
    \E j \in 1..Len(log) :
        /\ Threw(j) /\ ~Overflowed /\ EmitCalled
        /\ Len(Snapshot(log[j].rid)) = 3
        /\ Snapshot(log[j].rid)[1] = log[j].callback
        /\ Cardinality(After(log[j].rid, log[j].callback)) = 2
        /\ \A g \in After(log[j].rid, log[j].callback) :
               InvokedAfter(log[j].rid, g, j)

(***************************************************************************)
(* C8.  Each listener invocation that throws causes one emission of        *)
(* `error`, issued at once (before the round goes on to its next listener) *)
(* with the event of the round, the listener and the error as payload, and *)
(* an invocation that does not throw causes none.  (An invocation whose    *)
(* emission of `error` finds the call stack full ends the log and is left  *)
(* aside here.)                                                            *)
(***************************************************************************)
C8_OneErrorPerThrow ==
    \A j \in 1..Len(log) : log[j].t = "return" /\ j < Len(log) =>
        /\ log[j].threw => ErrorEmission(j + 1, j)
        /\ ~log[j].threw => ~(log[j + 1].t = "emit" /\ log[j + 1].event = ERROR)

(***************************************************************************)
(* C9.  Whichever listeners fail, a call of emit for a valid event returns *)
(* normally, every round of the call having run to its end and invoked all *)
(* the listeners of its list.  (The failures of listeners of `error`       *)
(* itself, for which `error` is emitted again until the stack is           *)
(* exhausted, are left aside.)                                             *)
(***************************************************************************)
C9_EmitReturns ==
    EmitCalled /\ ~ErrorListenerFailed =>
        /\ last.exc = NoExc
        /\ \A rid \in Rounds : Completed(rid) /\ Invoked(rid) = Snapshot(rid)

(***************************************************************************)
(* C10.  Argument validation: a call of on, off, removeAllListeners or     *)
(* emit whose event is not a string that is non-empty once trimmed raises  *)
(* the TypeError for `event`; a call of on or off with a valid event and a *)
(* callback that is not a function raises the TypeError for `callback`;    *)
(* either way the registry is as before the call and nothing was written,  *)
(* emitted or invoked.  Valid arguments raise neither.                     *)
(***************************************************************************)
Rejected(message) ==
    /\ last.exc = jsError(message)
    /\ registry = last.before
    /\ log = <<>>

C10_Validation ==
    last.op \in {"on", "off", "removeAllListeners", "emit"} =>
        /\ last.event \in InvalidEvents => Rejected(EVENT_ERROR)
        /\ (/\ last.event \in ValidEvents
            /\ last.op \in {"on", "off"}
            /\ last.callback \in InvalidCallbacks) => Rejected(CALLBACK_ERROR)
        /\ (/\ last.event \in ValidEvents
            /\ last.op \in {"on", "off"} => last.callback \notin InvalidCallbacks)
           => last.exc \notin {jsError(EVENT_ERROR), jsError(CALLBACK_ERROR)}

\* on was called with a blank event on a broker that has listeners.
C10_Witness ==
    /\ last.op = "on"
    /\ last.event = jsString(<<" ", " ", " ">>)
    /\ last.exc = jsError(EVENT_ERROR)
    /\ Size(last.before) >= 2

(***************************************************************************)
(* Once registrations.                                                     *)
(***************************************************************************)
\* The registry as it is after the first j entries of the log.
RECURSIVE RegAt(_)
RegAt(j) ==
    IF j = 0 THEN last.before
    ELSE LET map == RegAt(j - 1)
         IN  CASE log[j].t = "set" ->
                      [e \in DOMAIN map \cup {log[j].event} |->
                          IF e = log[j].event THEN log[j].listeners ELSE map[e]]
               [] log[j].t = "delete" ->
                      [e \in DOMAIN map \ {log[j].event} |-> map[e]]
               [] OTHER -> map

\* The list stored for event e in map, empty when none is.
ListOf(map, e) == IF e \in DOMAIN map THEN map[e] ELSE <<>>

\* The adapters made so far, as indices.
Adapters == 1..Len(adapters)

\* The calls adapters made of the listeners they wrap, as indices of the log.
Applications == {i \in 1..Len(log) : log[i].t = "apply"}

(***************************************************************************)
(* C11.  one validates its arguments as on does: a call of one with an     *)
(* invalid event raises the TypeError for `event`, a call with a valid     *)
(* event and a callback that is not a function raises the TypeError for    *)
(* `callback`, and either way nothing is registered, written or emitted.   *)
(***************************************************************************)
C11_OneValidation ==
    last.op = "one" =>
        /\ ~isValidEvent(last.event) => Rejected(EVENT_ERROR)
        /\ isValidEvent(last.event) /\ ~isValidCallback(last.callback)
               => Rejected(CALLBACK_ERROR)

(***************************************************************************)
(* C12.  Once semantics: a call of emit(e) that finds in e's list the      *)
(* adapter of one(e, f) leaves f invoked exactly once in total and the     *)
(* adapter out of the list, so that of any number of successive calls of   *)
(* emit(e) the first invokes f and the later ones do not.                  *)
(***************************************************************************)
C12_OnceSemantics ==
    \A k \in Adapters :
        (/\ last.op = "emit" /\ last.exc = NoExc
         /\ isFunction(adapters[k].callback)
         /\ SingleNames[k] \in Members(ListOf(last.before, last.event.s)))
        => /\ fired[k] = 1
           /\ SingleNames[k] \notin Members(ListOf(registry, last.event.s))

(***************************************************************************)
(* C13.  A listener registered by one call of one is invoked at most once  *)
(* in the whole life of the broker: no adapter ever makes a second call of *)
(* the listener it wraps.                                                  *)
(***************************************************************************)
C13_AtMostOnce == \A k \in Adapters : fired[k] <= 1

(***************************************************************************)
(* C14.  When an invocation of an adapter made by one returns to the       *)
(* round that invoked it, the adapter is no longer in the list of the      *)
(* round's event, whatever the wrapped listener did.                       *)
(***************************************************************************)
C14_RemovedOnceInvoked ==
    \A j \in 1..Len(log) :
        log[j].t = "return" /\ IsAdapter(log[j].callback) =>
            log[j].callback \notin Members(ListOf(RegAt(j), log[log[j].rid].event))

(***************************************************************************)
(* C15.  An adapter made by one calls the listener it wraps with exactly   *)
(* the arguments the adapter was invoked with (those of the emission).     *)
(***************************************************************************)
C15_ForwardsArguments ==
    \A i \in Applications : log[i].args = log[i].emitted

(***************************************************************************)
(* Removal and the lifecycle events.                                       *)
(***************************************************************************)
\* The payload of a lifecycle emission for (e, f).
Payload(e, f) == <<[event |-> e, callback |-> f]>>

\* The emissions of event e during the call, as indices of the log, in order.
EmissionsOf(e) ==
    SelectSeq([i \in 1..Len(log) |-> i],
              LAMBDA i : log[i].t = "emit" /\ log[i].event = e)

\* list without f, computed from the list alone
Less(list, f) == SelectSeq(list, LAMBDA x : x # f)

\* Every list of the registry other than that of e is as before the call.
OthersUnchanged(e) ==
    \A x \in (DOMAIN registry \cup DOMAIN last.before) \ {e} :
        ListOf(registry, x) = ListOf(last.before, x)

(***************************************************************************)
(* C16.  Calling the function that on(e, f) returned removes the pair      *)
(* (e, f) and nothing else, as off(e, f) does: afterwards f is not in e's  *)
(* list (so that emit(e) does not invoke it), the other listeners of e are *)
(* in the list as before, in the same order, the lists of the other events *)
(* (f's registrations for them included) are unchanged, and if f was       *)
(* registered for e, the call emitted listenerRemoved once, for (e, f).    *)
(***************************************************************************)
C16_ReturnedFunctionRemoves ==
    last.op = "unsubscribe" =>
        /\ last.exc = NoExc
        /\ last.callback.id \notin Members(ListOf(registry, last.event.s))
        /\ ListOf(registry, last.event.s) =
               Less(ListOf(last.before, last.event.s), last.callback.id)
        /\ OthersUnchanged(last.event.s)
        /\ last.callback.id \in Members(ListOf(last.before, last.event.s)) =>
               /\ Len(EmissionsOf(REMOVED)) = 1
               /\ log[EmissionsOf(REMOVED)[1]].args =
                      Payload(last.event.s, last.callback.id)
        /\ last.callback.id \notin Members(ListOf(last.before, last.event.s)) =>
               log = <<>>

\* The function returned by on(a, f1) was called while a had another
\* listener as well.
C16_Witness ==
    /\ last.op = "unsubscribe"
    /\ last.event.s = A /\ last.callback.id = "f1"
    /\ Len(ListOf(last.before, A)) = 2
    /\ "f1" \in Members(ListOf(last.before, A))
    /\ Len(ListOf(registry, A)) = 1

\* The call was a call of op with arguments that pass its checks.
ValidCall(op) ==
    /\ last.op = op
    /\ isValidEvent(last.event)
    /\ op \in {"on", "off"} => isValidCallback(last.callback)

\* Round rid invoked the listeners of its list, each once, in order and with
\* the arguments of the emission, and every invocation returned to it.
Delivered(rid) ==
    /\ Completed(rid)
    /\ Invoked(rid) = Snapshot(rid)
    /\ \A i \in CallsIn(rid) :
           /\ log[i].args = log[rid].args
           /\ \E j \in (i + 1)..(EndOf(rid) - 1) :
                  /\ log[j].t = "return" /\ log[j].rid = rid
                  /\ log[j].callback = log[i].callback

(***************************************************************************)
(* C17.  off(e, f) emits listenerRemoved exactly when it removes f: if f   *)
(* is in e's list, the call writes the list without f and then emits       *)
(* listenerRemoved, once, with the payload for (e, f), to the listeners    *)
(* registered for listenerRemoved at that time; if f is not in e's list,   *)
(* the call writes nothing, emits nothing, invokes nothing and returns.    *)
(***************************************************************************)
C17_RemovedEmittedIffRemoved ==
    ValidCall("off") =>
        IF last.callback.id \in Members(ListOf(last.before, last.event.s))
        THEN /\ Len(log) >= 2
             /\ log[1].t \in {"set", "delete"}
             /\ log[1].event = last.event.s
             /\ ListOf(RegAt(1), last.event.s) =
                    Less(ListOf(last.before, last.event.s), last.callback.id)
             /\ EmissionsOf(REMOVED) = <<2>>
             /\ log[2].args = Payload(last.event.s, last.callback.id)
             /\ Snapshot(2) = ListOf(RegAt(1), REMOVED)
             /\ \A j \in 3..Len(log) : log[j].t \notin {"set", "delete"}
             /\ last.exc = NoExc => Delivered(2)
        ELSE /\ log = <<>>
             /\ registry = last.before
             /\ last.exc = NoExc

\* off removed a listener while listenerRemoved had two listeners.
C17_Witness ==
    /\ ValidCall("off") /\ last.exc = NoExc
    /\ last.event.s = A
    /\ last.callback.id \in Members(ListOf(last.before, A))
    /\ Len(ListOf(last.before, REMOVED)) = 2
    /\ Cardinality(CallsIn(2)) = 2

(***************************************************************************)
(* C18.  Every call of on(e, f) that returns has, after writing e's list,  *)
(* emitted listenerAdded as emit does, with the payload for (e, f): every  *)
(* listener registered for listenerAdded at that time was invoked once     *)
(* with that payload, in order, and returned, before on returned.          *)
(***************************************************************************)
C18_AddedEmitted ==
    ValidCall("on") /\ last.exc = NoExc =>
        /\ Len(log) >= 3
        /\ log[1].t = "set" /\ log[1].event = last.event.s
        /\ EmissionsOf(ADDED) = <<2>>
        /\ log[2].args = Payload(last.event.s, last.callback.id)
        /\ Snapshot(2) = ListOf(RegAt(1), ADDED)
        /\ Delivered(2)

\* on returned after listenerAdded was delivered to two listeners, one of
\* which threw.
C18_Witness ==
    /\ ValidCall("on") /\ last.exc = NoExc
    /\ last.event.s = A
    /\ ListOf(last.before, ADDED) = <<"thrower", "f1">>
    /\ Invoked(2) = <<"thrower", "f1">>

(***************************************************************************)
(* C19.  removeAllListeners(e), for an event with N listeners, removes     *)
(* them one at a time, in the order of the list: each of its N writes      *)
(* takes one listener off the list and is followed by an emission of       *)
(* listenerRemoved for that listener (N emissions, not one), and when the  *)
(* call returns e has no listener left, so that emit(e) invokes none.      *)
(***************************************************************************)
\* The writes of the call, as indices of the log, in order.
Writes ==
    SelectSeq([i \in 1..Len(log) |-> i], LAMBDA i : log[i].t \in {"set", "delete"})

C19_RemoveAllOneByOne ==
    ValidCall("removeAllListeners") /\ last.exc = NoExc =>
        /\ Len(Writes) = Len(ListOf(last.before, last.event.s))
        /\ Len(EmissionsOf(REMOVED)) = Len(ListOf(last.before, last.event.s))
        /\ \A k \in 1..Len(ListOf(last.before, last.event.s)) :
               /\ log[Writes[k]].event = last.event.s
               /\ ListOf(RegAt(Writes[k]), last.event.s) =
                      SubSeq(ListOf(last.before, last.event.s), k + 1,
                             Len(ListOf(last.before, last.event.s)))
               /\ EmissionsOf(REMOVED)[k] = Writes[k] + 1
               /\ log[EmissionsOf(REMOVED)[k]].args =
                      Payload(last.event.s, ListOf(last.before, last.event.s)[k])
        /\ ListOf(registry, last.event.s) = <<>>
        /\ OthersUnchanged(last.event.s)

\* removeAllListeners cleared an event that had two listeners while
\* listenerRemoved had a listener.
C19_Witness ==
    /\ ValidCall("removeAllListeners") /\ last.exc = NoExc
    /\ last.event.s = A
    /\ Len(ListOf(last.before, A)) = 2
    /\ Len(ListOf(last.before, REMOVED)) = 1
    /\ Len(EmissionsOf(REMOVED)) = 2

(***************************************************************************)
(* C20.  Dispatch is per event: every round (of a call of emit, of a       *)
(* lifecycle emission or of an `error` emission) iterates the list stored  *)
(* for its own event and invokes no listener that is not in that list,     *)
(* whatever is registered for other events; a call of emit(e) that returns *)
(* has invoked the listeners registered for e, each once, so that a        *)
(* callback registered for several events is invoked once by the emission  *)
(* of each of them.                                                        *)
(***************************************************************************)
C20_CrossEventIndependence ==
    /\ \A rid \in Rounds :
           /\ Snapshot(rid) = ListOf(RegAt(rid), log[rid].event)
           /\ \A i \in CallsIn(rid) :
                  /\ log[i].event = log[rid].event
                  /\ log[i].callback \in Members(ListOf(RegAt(rid), log[rid].event))
    /\ EmitCalled /\ last.exc = NoExc =>
           Invoked(1) = ListOf(last.before, last.event.s)

\* emit(b) invoked f1, registered for a and for b, once, and not the other
\* listener of a.
C20_Witness ==
    /\ EmitCalled /\ last.exc = NoExc
    /\ last.event.s = B
    /\ ListOf(last.before, B) = <<"f1">>
    /\ Len(ListOf(last.before, A)) = 2
    /\ "f1" \in Members(ListOf(last.before, A))
    /\ Invoked(1) = <<"f1">>
    /\ Cardinality({i \in 1..Len(log) : log[i].t = "call"}) = 1

(***************************************************************************)
(* C21.  off(e, f) and removeAllListeners(e) touch the list of e only:     *)
(* every write of the call is a write of e's list, and the lists of all    *)
(* other events are the same after the call as before it, also when f is   *)
(* registered for several events (no listener of listenerRemoved or of     *)
(* `error` changing the registry itself).                                  *)
(***************************************************************************)
C21_OtherEventsUntouched ==
    ValidCall("off") \/ ValidCall("removeAllListeners") =>
        /\ \A k \in 1..Len(Writes) : log[Writes[k]].event = last.event.s
        /\ OthersUnchanged(last.event.s)
        /\ \A x \in DOMAIN last.before \ {last.event.s} : x \in DOMAIN registry

\* off(a, f1) took the last listener of a away while f1 was registered for
\* two other events as well.
C21_Witness ==
    /\ ValidCall("off")
    /\ last.event.s = A /\ last.callback.id = "f1"
    /\ ListOf(last.before, A) = <<"f1">>
    /\ A \notin DOMAIN registry
    /\ Cardinality({x \in DOMAIN registry : "f1" \in Members(registry[x])}) = 2

\* The list that write number k of the last call replaced, and the one it
\* stored.
Replaced(k) ==
    LET e == log[Writes[k]].event
        earlier == {j \in 1..(k - 1) : log[Writes[j]].event = e}
    IN  IF earlier = {} THEN ListOf(last.before, e)
        ELSE LET j == CHOOSE j \in earlier : \A x \in earlier : x <= j
             IN  IF log[Writes[j]].t = "set" THEN log[Writes[j]].listeners ELSE <<>>

Stored(k) == IF log[Writes[k]].t = "set" THEN log[Writes[k]].listeners ELSE <<>>

\* The listeners that old and new share are in the same order in both, and
\* those that new has more come after them.
SameOrder(old, new) ==
    /\ SelectSeq(new, LAMBDA x : x \in Members(old))
           = SelectSeq(old, LAMBDA x : x \in Members(new))
    /\ new = SelectSeq(new, LAMBDA x : x \in Members(old))
                 \o SelectSeq(new, LAMBDA x : x \notin Members(old))

\* The listeners of e that no write of the last call took out of e's list.
Staying(e) ==
    {f \in Members(ListOf(last.before, e)) :
        \A k \in 1..Len(Writes) : log[Writes[k]].event = e => f \in Members(Stored(k))}

(***************************************************************************)
(* C22.  Registration order is kept: every write of a list, whatever the   *)
(* operation that makes it and wherever it happens (in the call itself or  *)
(* in a listener it invokes), leaves the listeners it keeps in the order   *)
(* they had and puts a new one after them; so the listeners of an event    *)
(* that stay registered throughout a call are in the same relative order   *)
(* after it as before.                                                     *)
(***************************************************************************)
C22_OrderPreserved ==
    /\ \A k \in 1..Len(Writes) : SameOrder(Replaced(k), Stored(k))
    /\ \A e \in DOMAIN last.before :
           SelectSeq(ListOf(registry, e), LAMBDA x : x \in Staying(e))
               = SelectSeq(last.before[e], LAMBDA x : x \in Staying(e))

\* off took the first of three listeners away; the two others follow each
\* other as before.
C22_Witness ==
    /\ ValidCall("off") /\ last.exc = NoExc
    /\ Len(ListBefore) = 3
    /\ last.callback.id = ListBefore[1]
    /\ ListOf(registry, last.event.s) = <<ListBefore[2], ListBefore[3]>>

(***************************************************************************)
(* C23.  Registering a listener again changes nothing in the registry:     *)
(* after on(e, f) with f already in e's list, every event has the list it  *)
(* had before, with the same listeners in the same order; f is where it    *)
(* was, not at the end.                                                    *)
(***************************************************************************)
C23_OnIdempotent ==
    ValidCall("on") /\ last.callback.id \in Members(ListBefore) =>
        registry = last.before

\* on(e, f) with f the first of e's two listeners: f is still the first.
C23_Witness ==
    /\ ValidCall("on") /\ last.exc = NoExc
    /\ Len(ListBefore) = 2
    /\ last.callback.id = ListBefore[1]
    /\ registry = last.before
    /\ \E i \in 1..Len(log) : log[i].t = "set" /\ log[i].listeners = ListBefore

(***************************************************************************)
(* C24.  Every listener an emission invokes receives exactly the arguments *)
(* of the emission, in order, whatever their number and type; so all the   *)
(* listeners of a round receive the same arguments.                        *)
(***************************************************************************)
C24_ArgumentsPassed ==
    \A rid \in Rounds : \A i \in CallsIn(rid) : log[i].args = log[rid].args

\* The last call was a valid call of on, off or removeAllListeners.
RegistryCall ==
    ValidCall("on") \/ ValidCall("off") \/ ValidCall("removeAllListeners")

\* Entry j is the end of an invocation in which a listener of listenerAdded
\* or of listenerRemoved threw.
LifecycleThrow(j) ==
    Threw(j) /\ log[log[j].rid].event \in {ADDED, REMOVED}

\* The registry holds the change the last call made (for removeAllListeners:
\* the removals it made).
ChangeStands ==
    /\ ValidCall("on") =>
           ListOf(registry, last.event.s) = uniq(concat(ListBefore, last.callback.id))
    /\ ValidCall("off") =>
           ListOf(registry, last.event.s) = without(ListBefore, last.callback.id)
    /\ ValidCall("removeAllListeners") =>
           /\ ListOf(registry, last.event.s)
                  = SubSeq(ListBefore, Len(Writes) + 1, Len(ListBefore))
           /\ last.exc = NoExc => Len(Writes) = Len(ListBefore)
    /\ OthersUnchanged(last.event.s)

(***************************************************************************)
(* C25, as claimed.  A listener of listenerAdded or listenerRemoved that   *)
(* throws during on, off or removeAllListeners causes an emission of       *)
(* `error` with the lifecycle event and the listener as payload, the       *)
(* listeners after it are invoked, the call returns normally and the       *)
(* registry holds its change.                                              *)
(***************************************************************************)
C25_Original ==
    RegistryCall =>
        \A j \in 1..Len(log) : LifecycleThrow(j) =>
            /\ j < Len(log) /\ ErrorEmission(j + 1, j)
            /\ \A g \in After(log[j].rid, log[j].callback) :
                   InvokedAfter(log[j].rid, g, j)
            /\ last.exc = NoExc
            /\ ChangeStands

(***************************************************************************)
(* C25, amended.  A listener of listenerAdded or listenerRemoved that      *)
(* throws during on, off or removeAllListeners is caught like any other:   *)
(* `error` is emitted at once with the lifecycle event, the listener and   *)
(* the error as payload, and unless the call stack overflows (which a      *)
(* failing listener of `error` causes) the listeners after it are invoked  *)
(* and the call returns normally.  What the listener threw never reaches   *)
(* the caller: the only exception is the RangeError of the overflow.  In   *)
(* both cases the registry holds the change the call made.                 *)
(***************************************************************************)
C25_LifecycleIsolation ==
    RegistryCall =>
        \A j \in 1..Len(log) : LifecycleThrow(j) =>
            /\ j < Len(log) => ErrorEmission(j + 1, j)
            /\ ~Overflowed =>
                   /\ j < Len(log)
                   /\ \A g \in After(log[j].rid, log[j].callback) :
                          InvokedAfter(log[j].rid, g, j)
                   /\ last.exc = NoExc
            /\ last.exc \in {NoExc, jsError(RANGE_ERROR)}
            /\ last.exc = jsError(RANGE_ERROR) => ErrorListenerFailed
            /\ ChangeStands

\* on(a, f1) with thrower and f1 listening to listenerAdded: thrower threw,
\* `error` was emitted for it, f1 was invoked, on returned and f1 is in a's
\* list.
C25_Witness ==
    /\ ValidCall("on") /\ last.exc = NoExc
    /\ last.event.s = A /\ last.callback.id = "f1"
    /\ "f1" \notin Members(ListBefore)
    /\ "f1" \in Members(ListOf(registry, A))
    /\ \E j \in 1..Len(log) :
           /\ LifecycleThrow(j)
           /\ Snapshot(log[j].rid) = <<"thrower", "f1">>
           /\ ErrorEmission(j + 1, j)
           /\ log[j + 1].args[1].event = ADDED
           /\ log[j + 1].args[1].callback = "thrower"
           /\ InvokedAfter(log[j].rid, "f1", j)

(***************************************************************************)
(* C26.  What a listener returns is ignored: an invocation that returns    *)
(* normally, whatever the value, is followed by what follows one that      *)
(* returns undefined (no emission of `error`: the round goes on to its     *)
(* next listener or ends), and a call of emit that returns hands its       *)
(* caller undefined.                                                       *)
(***************************************************************************)
C26_ReturnValuesIgnored ==
    /\ \A j \in 1..Len(log) :
           log[j].t = "return" /\ ~log[j].threw /\ j < Len(log) =>
               \/ log[j + 1].t = "emitted" /\ log[j + 1].rid = log[j].rid
               \/ log[j + 1].t = "call" /\ log[j + 1].rid = log[j].rid
    /\ EmitCalled /\ last.exc = NoExc => last.val = Undefined

(***************************************************************************)
(* C27.  Each instance has a registry of its own: a call of a method of    *)
(* one instance leaves the registry of the other instance as it was, every *)
(* round of the call iterates the list that the instance's own registry    *)
(* holds for the event (so that a listener registered for it on the other  *)
(* instance only is not invoked), and the instance's registry ends up with *)
(* the writes of the call and nothing else.                                *)
(***************************************************************************)
C27_PrivateRegistry ==
    last.op # "new" =>
        /\ (IF last.this = 1 THEN other ELSE registry) = last.peer
        /\ \A rid \in Rounds :
               Snapshot(rid) = ListOf(RegAt(rid - 1), log[rid].event)
        /\ (IF last.this = 1 THEN registry ELSE other) = RegAt(Len(log))

\* Both instances have f1 for event a and the first has thrower as well:
\* emit(a) on the second invokes f1 and nothing else; removing f1 from the
\* second leaves the first with both.
C27_Witness ==
    /\ last.op = "emit" /\ last.this = 2 /\ last.event.s = A
    /\ ListOf(registry, A) = <<"f1", "thrower">>
    /\ ListOf(other, A) = <<"f1">>
    /\ Invoked(1) = <<"f1">>
    /\ \A i \in 1..Len(log) : log[i].t = "call" => log[i].callback = "f1"

\* The invocation that starts at entry i returned to its round, at entry
\* ReturnOf(i).
HasReturn(i) ==
    \E j \in (i + 1)..Len(log) :
        log[j].t = "return" /\ log[j].rid = log[i].rid
            /\ log[j].callback = log[i].callback

ReturnOf(i) ==
    CHOOSE j \in (i + 1)..Len(log) :
        log[j].t = "return" /\ log[j].rid = log[i].rid
            /\ log[j].callback = log[i].callback

\* The rounds started while the invocation that starts at entry i ran.
Nested(i) == {r \in Rounds : i < r /\ r < ReturnOf(i)}

(***************************************************************************)
(* C28.  A listener that emits during a round (the round's event or        *)
(* another) makes an ordinary call: the inner round, with whatever it      *)
(* starts in turn, runs to its end before the listener returns; the outer  *)
(* round invokes no listener meanwhile, and then goes on with the list it  *)
(* started with, whatever the inner rounds and the listener did.           *)
(***************************************************************************)
C28_NestedEmission ==
    /\ \A i \in 1..Len(log) : log[i].t = "call" =>
           /\ HasReturn(i)
           /\ \A r \in Nested(i) : Completed(r) /\ EndOf(r) < ReturnOf(i)
           /\ \A k \in CallsIn(log[i].rid) : ~(i < k /\ k < ReturnOf(i))
    /\ \A o \in Rounds : Completed(o) /\ Invoked(o) = Snapshot(o)

\* emit(a) with reEmitter and emitsB listening to a and f1 to b: during the
\* invocation of reEmitter an inner round for a invoked emitsB, which
\* started a round for b that invoked f1; the outer round then invoked
\* emitsB itself.
C28_Witness ==
    /\ EmitCalled /\ last.exc = NoExc
    /\ Snapshot(1) = <<"reEmitter", "emitsB">>
    /\ \E i \in CallsIn(1) :
           /\ log[i].callback = "reEmitter"
           /\ \E r \in Nested(i) :
                  /\ log[r].event = A
                  /\ Snapshot(r) = <<"emitsB">>
                  /\ Invoked(r) = Snapshot(r)
           /\ \E r \in Nested(i) : log[r].event = B /\ Invoked(r) = <<"f1">>
           /\ InvokedAfter(1, "emitsB", ReturnOf(i))
    /\ Cardinality({r \in Rounds : log[r].event = B}) = 2

\* The last call was a valid call of emit, off or removeAllListeners for an
\* event that had no listener.
NothingListens ==
    /\ ValidCall("emit") \/ ValidCall("off") \/ ValidCall("removeAllListeners")
    /\ ListBefore = <<>>

(***************************************************************************)
(* C29.  emit, off (with any function) and removeAllListeners for a valid  *)
(* event that has no listener do nothing: the call returns normally,       *)
(* invokes no listener, emits no lifecycle event nor `error`, writes       *)
(* nothing and leaves the registry as it was (the round of emit is empty). *)
(***************************************************************************)
C29_NoListenersNoOp ==
    NothingListens =>
        /\ last.exc = NoExc /\ last.val = Undefined
        /\ registry = last.before
        /\ log = IF last.op = "emit"
                 THEN <<[t |-> "emit", event |-> last.event.s, args |-> last.args,
                         listeners |-> <<>>],
                        [t |-> "emitted", rid |-> 1]>>
                 ELSE <<>>

\* off(b, f1) while listeners (of listenerRemoved too) are registered for
\* other events and none for b.
C29_Witness ==
    /\ NothingListens /\ last.op = "off"
    /\ last.event.s = B /\ last.callback.id = "f1"
    /\ ListOf(registry, REMOVED) # <<>>
    /\ "f1" \in Members(ListOf(registry, A))
    /\ log = <<>>

(***************************************************************************)
(* C30.  The function one(e, f) returns is the unsubscribe function of the *)
(* adapter: called before the adapter has fired, it removes the adapter    *)
(* from e's list, and an emission invokes registered adapters only, so     *)
(* that f is not invoked by later emissions of e; called after the adapter *)
(* has fired, it does nothing (no write, no emission, same registry).      *)
(***************************************************************************)
C30_OneReturnsUnsubscribe ==
    /\ last.op = "unsubscribe" /\ IsAdapter(last.callback.id) =>
           /\ last.exc = NoExc
           /\ last.callback.id \notin Members(ListOf(registry, last.event.s))
           /\ ListOf(registry, last.event.s) = Less(ListBefore, last.callback.id)
           /\ OthersUnchanged(last.event.s)
           /\ fired[AdapterIndex(last.callback.id)] >= 1 =>
                  log = <<>> /\ registry = last.before
    /\ last.op = "emit" =>
           \A i \in Applications : log[i].adapter \in Members(ListBefore)

(***************************************************************************)
(* C31.  Every valid call of on emits listenerAdded once, with the payload *)
(* for (e, f), whether or not it adds anything: when f is already in e's   *)
(* list the registry stays as it was and the listeners of listenerAdded    *)
(* are invoked all the same, each once.  listenerRemoved is different: a   *)
(* call of off or removeAllListeners emits it once per listener it takes   *)
(* off the list, and not at all when it removes nothing.                   *)
(***************************************************************************)
C31_AddedOnEveryOn ==
    /\ ValidCall("on") =>
           /\ EmissionsOf(ADDED) = <<2>>
           /\ log[2].args = Payload(last.event.s, last.callback.id)
           /\ last.callback.id \in Members(ListBefore) =>
                  /\ registry = last.before
                  /\ Snapshot(2) = ListOf(last.before, ADDED)
                  /\ last.exc = NoExc => Delivered(2)
    /\ ValidCall("off") \/ ValidCall("removeAllListeners") =>
           /\ Len(EmissionsOf(REMOVED)) = Len(Writes)
           /\ Len(Writes) = Len(ListBefore) - Len(ListOf(registry, last.event.s))

\* on(a, f1) with f1 already in a's list and thrower listening to
\* listenerAdded: the registry is the same and thrower was invoked.
C31_Witness ==
    /\ ValidCall("on") /\ last.exc = NoExc
    /\ last.event.s = A /\ last.callback.id = "f1"
    /\ "f1" \in Members(ListBefore)
    /\ registry = last.before
    /\ Invoked(2) = <<"thrower">>
    /\ log[2].args = Payload(A, "f1")

(***************************************************************************)
(* C32.  on stores the list before it emits listenerAdded: the first thing *)
(* a valid call of on does is write e's list, with f in it, and the round  *)
(* of listenerAdded that follows starts from the registry as written.  So  *)
(* on(listenerAdded, h) has h in the round's list, and when the call       *)
(* returns h has been invoked by it once, with the payload naming          *)
(* listenerAdded and h.                                                    *)
(***************************************************************************)
C32_RegisteredBeforeAdded ==
    ValidCall("on") =>
        /\ Len(log) >= 2
        /\ log[1].t = "set" /\ log[1].event = last.event.s
        /\ last.callback.id \in Members(log[1].listeners)
        /\ log[2].t = "emit" /\ log[2].event = ADDED
        /\ Snapshot(2) = ListOf(RegAt(1), ADDED)
        /\ last.event.s = ADDED =>
               /\ last.callback.id \in Members(Snapshot(2))
               /\ last.exc = NoExc =>
                      /\ Cardinality({i \in CallsIn(2) :
                                         log[i].callback = last.callback.id}) = 1
                      /\ \A i \in CallsIn(2) :
                             log[i].args = Payload(ADDED, last.callback.id)

\* on(listenerAdded, f1) with thrower already listening: the round invoked
\* thrower and then f1 itself, for its own registration.
C32_Witness ==
    /\ ValidCall("on") /\ last.exc = NoExc
    /\ last.event.s = ADDED /\ last.callback.id = "f1"
    /\ ListBefore = <<"thrower">>
    /\ Invoked(2) = <<"thrower", "f1">>
    /\ \A i \in CallsIn(2) : log[i].args = Payload(ADDED, "f1")

(***************************************************************************)
(* C33.  off stores the list before it emits listenerRemoved: the first    *)
(* thing a call of off that removes f does is write e's list without f,    *)
(* and the round of listenerRemoved that follows starts from the registry  *)
(* as written.  So off(listenerRemoved, h) does not invoke h for its own   *)
(* removal, and invokes the listeners of listenerRemoved that remain.      *)
(***************************************************************************)
C33_RemovedBeforeEmitted ==
    ValidCall("off") /\ last.callback.id \in Members(ListBefore) =>
        /\ Len(log) >= 2
        /\ log[1].t \in {"set", "delete"} /\ log[1].event = last.event.s
        /\ last.callback.id \notin Members(ListOf(RegAt(1), last.event.s))
        /\ log[2].t = "emit" /\ log[2].event = REMOVED
        /\ Snapshot(2) = ListOf(RegAt(1), REMOVED)
        /\ last.event.s = REMOVED =>
               /\ Snapshot(2) = Less(ListBefore, last.callback.id)
               /\ \A i \in CallsIn(2) : log[i].callback # last.callback.id
               /\ EmissionsOf(REMOVED) = <<2>>
               /\ last.exc = NoExc => Invoked(2) = Snapshot(2)

\* off(listenerRemoved, thrower) with thrower and f1 listening: f1 alone was
\* invoked.
C33_Witness ==
    /\ ValidCall("off") /\ last.exc = NoExc
    /\ last.event.s = REMOVED /\ last.callback.id = "thrower"
    /\ ListBefore = <<"thrower", "f1">>
    /\ Invoked(2) = <<"f1">>
    /\ log[CHOOSE i \in CallsIn(2) : TRUE].args = Payload(REMOVED, "thrower")

\* The adapter the last call of one made.
NewAdapter == SingleNames[Len(adapters)]

\* The calls of f the last call made, by the registry (f is in the list) or
\* by an adapter that wraps f.
CallsOf(f) ==
    {i \in 1..Len(log) : log[i].t \in {"call", "apply"} /\ log[i].callback = f}

(***************************************************************************)
(* C34.  What one(e, f) stores is a new adapter, not f.  Every call of one *)
(* with a valid event lengthens e's list by an adapter that was in no list *)
(* before, whatever is registered already (f itself or another adapter of  *)
(* f), and emits listenerAdded with the adapter in the payload.  off(e, f) *)
(* leaves the adapters of e's list where they are.  An emission that       *)
(* returns has called the wrapped listener of every adapter of its list,   *)
(* next to the listeners of the list themselves, and the listenerRemoved   *)
(* emissions for the adapters that take themselves off name the adapters.  *)
(***************************************************************************)
C34_AdapterIdentity ==
    /\ last.op = "one" /\ isValidEvent(last.event) =>
           /\ \A e \in DOMAIN last.before : NewAdapter \notin Members(last.before[e])
           /\ ListOf(registry, last.event.s) = Append(ListBefore, NewAdapter)
           /\ adapters[Len(adapters)] = [event |-> last.event, callback |-> last.callback]
           /\ EmissionsOf(ADDED) = <<2>>
           /\ log[2].args = Payload(last.event.s, NewAdapter)
    /\ ValidCall("off") =>
           \A x \in Members(ListBefore) :
               IsAdapter(x) => x \in Members(ListOf(registry, last.event.s))
    /\ EmitCalled /\ last.exc = NoExc =>
           /\ \A k \in 1..Len(ListBefore) : IsAdapter(ListBefore[k]) =>
                  \/ Cardinality({i \in Applications :
                                     log[i].adapter = ListBefore[k]}) = 1
                  \/ \E j \in 1..Len(log) :
                         /\ log[j].t = "return" /\ log[j].callback = ListBefore[k]
                         /\ log[j].value = jsError(NOT_A_FUNCTION)
           /\ \A j \in 1..Len(EmissionsOf(REMOVED)) :
                  IsAdapter(log[EmissionsOf(REMOVED)[j]].args[1].callback)

\* on(a, f1), then one(a, f1): emit(a) called f1 twice, once as the listener
\* of the list and once through the adapter, which then took itself off.
C34_Witness ==
    /\ EmitCalled /\ last.exc = NoExc /\ last.event.s = A
    /\ Len(ListBefore) = 2 /\ ListBefore[1] = "f1" /\ IsAdapter(ListBefore[2])
    /\ Cardinality(CallsOf("f1")) = 2
    /\ \E i \in Applications : log[i].adapter = ListBefore[2] /\ log[i].callback = "f1"
    /\ ListOf(registry, A) = <<"f1">>
    /\ Len(EmissionsOf(REMOVED)) = 1

\* The last call was a call of a function that on(e, f) returned, f being a
\* function of the client.
HandleCalled == last.op = "unsubscribe" /\ ~IsAdapter(last.callback.id)

\* The call did nothing.
NoOp == log = <<>> /\ registry = last.before /\ last.exc = NoExc

\* A second call of the function, right after a first: nothing happens.
SecondCall ==
    HandleCalled /\ HandleCalled' /\ handle' = handle => NoOp'

(***************************************************************************)
(* C35.  The function on(e, f) returns stands for the pair (e, f), not for *)
(* the registration that made it.  Whenever it is called, however long     *)
(* after the call of on and whatever was removed or registered meanwhile:  *)
(* if f is in e's list (the registration it came from or a later one), f   *)
(* is taken off it and listenerRemoved is emitted once for (e, f); if f is *)
(* not, nothing is written and nothing emitted.  Called twice in a row,    *)
(* it does nothing the second time.                                        *)
(***************************************************************************)
C35_BoundToPair ==
    /\ [](HandleCalled =>
             IF last.callback.id \in Members(ListBefore)
             THEN /\ ListOf(registry, last.event.s) = Less(ListBefore, last.callback.id)
                  /\ OthersUnchanged(last.event.s)
                  /\ Len(EmissionsOf(REMOVED)) = 1
                  /\ log[EmissionsOf(REMOVED)[1]].args =
                         Payload(last.event.s, last.callback.id)
             ELSE NoOp)
    /\ [][SecondCall]_vars

\* The function was called while its pair was not registered and another
\* listener of the event was: nothing happened.
C35_Witness ==
    /\ HandleCalled /\ NoOp
    /\ last.callback.id \notin Members(ListBefore)
    /\ ListBefore # <<>>

\* Entry j was logged by the call itself, not by a listener it invoked.
TopLevel(j) ==
    \A i \in 1..(j - 1) : log[i].t = "call" => HasReturn(i) /\ ReturnOf(i) < j

\* Write number k takes a listener off a list / puts one on it.
Removal(k) == Len(Stored(k)) < Len(Replaced(k))
Addition(k) == Len(Stored(k)) > Len(Replaced(k))

\* The listener that write number k took off (a removal).
Gone(k) == CHOOSE g \in Members(Replaced(k)) : g \notin Members(Stored(k))

\* The removals the call made itself, as indices of Writes, in order.
OwnRemovals ==
    SelectSeq([k \in 1..Len(Writes) |-> k], LAMBDA k : TopLevel(Writes[k]))

\* Position of g in list (g is in it).
Position(list, g) == CHOOSE i \in 1..Len(list) : list[i] = g

(***************************************************************************)
(* C36.  removeAllListeners(e) goes through the list e had when the call   *)
(* started.  The writes the call makes itself are removals from e's list   *)
(* of listeners of that list, each at most once and in the order of the    *)
(* list: a listener that a listener of listenerRemoved registers (again)   *)
(* meanwhile is not taken off and is registered when the call returns, and *)
(* a listener of the list that was taken off meanwhile is passed over      *)
(* without a write or an emission.  Every removal, by the call or by a     *)
(* listener, takes one listener off and is followed at once by one         *)
(* emission of listenerRemoved naming it, and there is no other.           *)
(***************************************************************************)
C36_ClearsSnapshot ==
    ValidCall("removeAllListeners") =>
        /\ \A k \in 1..Len(Writes) : Removal(k) =>
               /\ Len(Stored(k)) = Len(Replaced(k)) - 1
               /\ Writes[k] < Len(log)
               /\ log[Writes[k] + 1].t = "emit"
               /\ log[Writes[k] + 1].event = REMOVED
               /\ log[Writes[k] + 1].args = Payload(log[Writes[k]].event, Gone(k))
        /\ Len(EmissionsOf(REMOVED)) = Cardinality({k \in 1..Len(Writes) : Removal(k)})
        /\ \A n \in 1..Len(OwnRemovals) :
               /\ log[Writes[OwnRemovals[n]]].event = last.event.s
               /\ Removal(OwnRemovals[n])
               /\ Gone(OwnRemovals[n]) \in Members(ListBefore)
               /\ n > 1 => Position(ListBefore, Gone(OwnRemovals[n - 1]))
                               < Position(ListBefore, Gone(OwnRemovals[n]))
        /\ last.exc = NoExc =>
               /\ \A g \in Members(ListBefore) :
                      \E k \in 1..Len(Writes) :
                          /\ log[Writes[k]].event = last.event.s
                          /\ Removal(k) /\ Gone(k) = g
               /\ \A g \in Members(ListOf(registry, last.event.s)) :
                      \E k \in 1..Len(Writes) :
                          /\ log[Writes[k]].event = last.event.s
                          /\ Addition(k) /\ ~TopLevel(Writes[k])
                          /\ g \in Members(Stored(k)) \ Members(Replaced(k))

\* removeAllListeners(a) with f1 and thrower listening to a and addsF1 to
\* listenerRemoved: both were taken off, addsF1 registered f1 again, and f1
\* is registered when the call returns.
C36_Witness ==
    /\ ValidCall("removeAllListeners") /\ last.exc = NoExc
    /\ last.event.s = A
    /\ ListBefore = <<"f1", "thrower">>
    /\ ListOf(last.before, REMOVED) = <<"addsF1">>
    /\ Len(OwnRemovals) = 2
    /\ ListOf(registry, A) = <<"f1">>

\* Round r is a round for the event of round o, started by a listener that
\* round o invoked.
InnerOf(o, r) ==
    /\ log[r].event = log[o].event
    /\ \E i \in CallsIn(o) : r \in Nested(i)

(***************************************************************************)
(* C37.  Every round takes its list when it starts: the list of a round,   *)
(* nested or not, is the list the registry holds for its event at that     *)
(* time, and the round invokes exactly the listeners of that list.  A      *)
(* round for e started inside a round for e thus has the listeners added   *)
(* to e's list so far and not those removed so far, and the outer round    *)
(* goes on with the list it took, whatever the inner one had.              *)
(***************************************************************************)
C37_SnapshotPerRound ==
    \A r \in Rounds :
        /\ Snapshot(r) = ListOf(RegAt(r - 1), log[r].event)
        /\ Invoked(r) = Snapshot(r)
        /\ \A o \in Rounds : InnerOf(o, r) =>
               /\ Invoked(o) = Snapshot(o)
               /\ \A g \in Members(Snapshot(r)) \ Members(Snapshot(o)) :
                      \E j \in (o + 1)..(r - 1) : Adds(j, log[r].event, g)
               /\ \A g \in Members(Snapshot(o)) \ Members(Snapshot(r)) :
                      \E j \in (o + 1)..(r - 1) : Removes(j, log[r].event, g)

\* emit(a) with addsF1 and reEmitter listening: addsF1 registered f1,
\* reEmitter took itself off and emitted a; the inner round invoked addsF1
\* and f1, and the outer round invoked addsF1 and reEmitter only.
C37_Witness ==
    /\ EmitCalled /\ last.exc = NoExc /\ last.event.s = A
    /\ Snapshot(1) = <<"addsF1", "reEmitter">>
    /\ Invoked(1) = <<"addsF1", "reEmitter">>
    /\ \E r \in Rounds :
           /\ InnerOf(1, r)
           /\ Snapshot(r) = <<"addsF1", "f1">>
           /\ Invoked(r) = <<"addsF1", "f1">>

\* The names, other than that of the last call, that are the same once
\* trimmed.
Lookalikes ==
    {x \in DOMAIN registry \cup DOMAIN last.before :
        x # last.event.s /\ trim(x) = trim(last.event.s)}

(***************************************************************************)
(* C38.  A name is checked trimmed but used as it is: names that differ by *)
(* surrounding whitespace only are accepted and are different events.  A   *)
(* call for one of them reads and writes the list stored under that very   *)
(* name: emit invokes the listeners of that list only, and on, off and     *)
(* removeAllListeners leave the lists of the others as they were.          *)
(***************************************************************************)
C38_NamesUntrimmed ==
    last.op # "new" /\ isString(last.event) /\ trim(last.event.s) = A =>
        /\ last.exc = NoExc
        /\ \A x \in Lookalikes : ListOf(registry, x) = ListOf(last.before, x)
        /\ \A k \in 1..Len(Writes) : log[Writes[k]].event = last.event.s
        /\ last.op = "emit" =>
               /\ Snapshot(1) = ListOf(last.before, last.event.s)
               /\ Invoked(1) = Snapshot(1)
        /\ last.op = "on" =>
               ListOf(registry, last.event.s) = uniq(concat(ListBefore, last.callback.id))
        /\ last.op = "off" =>
               ListOf(registry, last.event.s) = without(ListBefore, last.callback.id)
        /\ last.op = "removeAllListeners" => last.event.s \notin DOMAIN registry

\* emit(" a") while f1 listens to "a" and thrower to " a": thrower alone
\* was invoked.
C38_Witness ==
    /\ last.op = "emit" /\ last.event.s = PaddedA
    /\ ListOf(last.before, A) = <<"f1">>
    /\ ListOf(last.before, PaddedA) = <<"thrower">>
    /\ Invoked(1) = <<"thrower">>
    /\ registry = last.before

\* A listener whose body calls no method of the broker.
Passive(f) ==
    /\ f \in FunctionNames
    /\ \A k \in 1..Len(Body(f)) : Body(f)[k].op \in {"throw", "return"}

\* Every listener the last call invoked, in whatever round, was passive.
OnlyPassiveInvoked ==
    \A i \in 1..Len(log) : log[i].t \in {"call", "apply"} => Passive(log[i].callback)

(***************************************************************************)
(* C39.  emit writes nothing to the registry: when every listener invoked  *)
(* during an emit call, the listeners of `error` included, calls no method *)
(* of the broker and none is a once adapter, the call makes no write and   *)
(* the registry is afterwards what it was before, whether the listeners    *)
(* returned or threw.                                                      *)
(***************************************************************************)
C39_EmitLeavesRegistry ==
    last.op = "emit" /\ OnlyPassiveInvoked =>
        /\ Writes = <<>>
        /\ registry = last.before

\* emit('a') with thrower among a's listeners and f1 listening to `error`:
\* thrower threw, f1 was told, and the registry is as it was.
C39_Witness ==
    /\ EmitCalled /\ last.event.s = A /\ OnlyPassiveInvoked
    /\ \E j \in 1..Len(log) :
           log[j].t = "return" /\ log[j].callback = "thrower" /\ log[j].threw
    /\ \E i \in 1..Len(log) :
           log[i].t = "call" /\ log[i].event = ERROR /\ log[i].callback = "f1"
    /\ registry = last.before

\* The invocations of listeners during the last call, in whatever round.
AllCalls == {i \in 1..Len(log) : log[i].t = "call"}

\* No listener invoked during the last call calls emit.
NoListenerEmits ==
    \A i \in AllCalls :
        \A k \in 1..Len(Body(log[i].callback)) : Body(log[i].callback)[k].op # "emit"

\* A listener of `error` threw during the last call.
ErrorListenerThrew ==
    \E j \in 1..Len(log) :
        log[j].t = "return" /\ log[j].threw /\ log[log[j].rid].event = ERROR

\* The invocations of round rid that handed announce an error.
FailuresIn(rid) ==
    {j \in 1..Len(log) :
        log[j].t = "return" /\ log[j].rid = rid /\ isError(log[j].value)}

(***************************************************************************)
(* C40.  Termination: when no listener calls emit and no listener of       *)
(* `error` throws, a call of on, off, removeAllListeners or emit returns   *)
(* without exhausting the stack, and an emit call invokes at most as many  *)
(* listeners as its list holds plus, for each listener of the list that    *)
(* failed, the number of listeners of `error`.                             *)
(***************************************************************************)
C40_Terminates ==
    last.op # "new" /\ NoListenerEmits /\ ~ErrorListenerThrew =>
        /\ ~Overflowed
        /\ EmitCalled =>
               Cardinality(AllCalls) <=
                   Len(Snapshot(1))
                       + Cardinality(FailuresIn(1)) * Len(ListOf(last.before, ERROR))

(***************************************************************************)
(* C2, for every valid event.  on(e, f) followed by emit(e) invokes f      *)
(* exactly once: a call of emit for a valid event invokes, in its round,   *)
(* every listener the registry held for the event when the call started    *)
(* exactly once.  (The calls that exhaust the stack, which a failing       *)
(* listener of `error` causes, are left aside.)                            *)
(***************************************************************************)
C2_EmitInvokesAll ==
    EmitCalled /\ ~Overflowed =>
        \A k \in 1..Len(ListBefore) :
            Cardinality({i \in CallsIn(1) : log[i].callback = ListBefore[k]}) = 1

====
